---- MODULE Spec2Model ----
(***************************************************************************)
(* A model of the chess move generation core of chess_lib (bitboard.c and  *)
(* move_gen.c).  A bitboard (uint64_t) is modelled as the set of the       *)
(* indices of its set bits, a subset of 0..63: bitwise and/or/not are      *)
(* intersection/union/complement.  The 32-bit flags word is kept as its    *)
(* two 16-bit halves, low (BOARD_FLAGS_LOW) and turn (BOARD_FLAGS_TURN_NUM)*)
(* because every statement of the code touches exactly one of the halves.  *)
(* A move (uint64_t) is the record of its bit fields.                      *)
(***************************************************************************)
EXTENDS Integers, Sequences, FiniteSets, TLC

\* ------------------------------------------------------------------------
\* constants of chess-util.h and move_gen.c
WHITE == 0
BLACK == 1

KING == 0
PAWN == 1
KNIGHT == 2
ROOK == 3
BISHOP == 4
QUEEN == 5

BOARD_POS_INVALID == 255

BOARD_FLAGS_EP_SQUARE == 63
BOARD_FLAGS_EP_PRESENT == 64
BOARD_FLAGS_TURN == 128
BOARD_FLAGS_W_CASTLE_KING == 256
BOARD_FLAGS_W_CASTLE_QUEEN == 512
BOARD_FLAGS_B_CASTLE_KING == 1024
BOARD_FLAGS_B_CASTLE_QUEEN == 2048

\* width of each half of the flags word (uint32_t flags, 16 + 16 bits)
TurnModulus == 65536

MOVE_GEN_MODE_NORMAL == 0
MOVE_GEN_MODE_CASTLE_KING == 1
MOVE_GEN_MODE_CASTLE_QUEEN == 2
MOVE_GEN_MODE_END == 3

MOVE_DONE_NORMAL == 1
MOVE_DONE_CHECKMATE == 2
MOVE_DONE_STALEMATE == 3

Squares == 0..63

\* ------------------------------------------------------------------------
\* bitboard primitives (bitboard.c)
bitboard_check_square(bb, square) == square \in bb

bitboard_set_square(bb, square) == bb \cup {square}

bitboard_clear_square(bb, square) == bb \ {square}

bitboard_popcount(bb) == Cardinality(bb)

\* a variant: the scan runs from the most significant bit
bitboard_scan_msb(bb) == CHOOSE s \in bb : \A t \in bb : s >= t

\* __builtin_ctzll: index of the least significant set bit
bitboard_scan_lsb(bb) == CHOOSE s \in bb : \A t \in bb : s <= t

\* board << n and board >> n on a uint64_t: the bits pushed past either end
\* of the word are lost
ShiftLeft(bb, n) == {s + n : s \in bb} \cap Squares

ShiftRight(bb, n) == {s - n : s \in bb} \cap Squares

bitboard_shift_n(bb) == ShiftLeft(bb, 8)

bitboard_shift_s(bb) == ShiftRight(bb, 8)

\* 0xfefefefefefefefe: every bit but bit 0 of each byte
shift_w_mask == {s \in Squares : s % 8 # 0}

\* 0x7f7f7f7f7f7f7f7f: every bit but bit 7 of each byte
shift_e_mask == {s \in Squares : s % 8 # 7}

\* a variant: the shift without its mask
bitboard_shift_w_unmasked(bb) == ShiftLeft(bb, 1)

bitboard_shift_w(bb) == ShiftLeft(bb, 1) \cap shift_w_mask

bitboard_shift_e(bb) == ShiftRight(bb, 1) \cap shift_e_mask

bitboard_shift_nw(bb) == bitboard_shift_w(bitboard_shift_n(bb))

bitboard_shift_ne(bb) == bitboard_shift_e(bitboard_shift_n(bb))

bitboard_shift_sw(bb) == bitboard_shift_w(bitboard_shift_s(bb))

bitboard_shift_se(bb) == bitboard_shift_e(bitboard_shift_s(bb))

board_pos_from_xy(x, y) ==
    IF x < 0 \/ y < 0 \/ x >= 8 \/ y >= 8 THEN BOARD_POS_INVALID ELSE x + 8 * y

board_pos_to_x(pos) == pos % 8

board_pos_to_y(pos) == (pos \div 8) % 8

\* ------------------------------------------------------------------------
\* flag word helpers: a single-bit mask of the low half tested, set, cleared
FlagSet(low, mask) == (low \div mask) % 2 = 1

FlagOr(low, mask) == IF FlagSet(low, mask) THEN low ELSE low + mask

FlagClear(low, mask) == IF FlagSet(low, mask) THEN low - mask ELSE low

\* ------------------------------------------------------------------------
\* precomputed tables (move_gen.c)
move_gen_knights ==
    [pos \in Squares |->
        LET x == board_pos_to_x(pos)
            y == board_pos_to_y(pos)
        IN  ({board_pos_from_xy(x + i, y + 2 * j) : i \in {-1, 1}, j \in {-1, 1}}
             \cup {board_pos_from_xy(x + 2 * i, y + j) : i \in {-1, 1}, j \in {-1, 1}})
            \ {BOARD_POS_INVALID}]

move_gen_kings ==
    [pos \in Squares |->
        LET x == board_pos_to_x(pos)
            y == board_pos_to_y(pos)
        IN  {board_pos_from_xy(x + i, y + j) : i \in {-1, 0, 1}, j \in {-1, 0, 1}}
            \ {pos, BOARD_POS_INVALID}]

RECURSIVE gen_ray_moves(_, _, _, _, _)
gen_ray_moves(occupancy, x, y, dx, dy) ==
    LET nx == x + dx
        ny == y + dy
    IN  IF nx <= 7 /\ ny <= 7 /\ nx >= 0 /\ ny >= 0
        THEN IF bitboard_check_square(occupancy, board_pos_from_xy(nx, ny))
             THEN {board_pos_from_xy(nx, ny)}
             ELSE {board_pos_from_xy(nx, ny)} \cup gen_ray_moves(occupancy, nx, ny, dx, dy)
        ELSE {}

gen_rook_moves(occupancy, square) ==
    LET x == board_pos_to_x(square)
        y == board_pos_to_y(square)
    IN  gen_ray_moves(occupancy, x, y, 1, 0) \cup gen_ray_moves(occupancy, x, y, -1, 0)
        \cup gen_ray_moves(occupancy, x, y, 0, 1) \cup gen_ray_moves(occupancy, x, y, 0, -1)

gen_bishop_moves(occupancy, square) ==
    LET x == board_pos_to_x(square)
        y == board_pos_to_y(square)
    IN  gen_ray_moves(occupancy, x, y, 1, 1) \cup gen_ray_moves(occupancy, x, y, -1, 1)
        \cup gen_ray_moves(occupancy, x, y, 1, -1) \cup gen_ray_moves(occupancy, x, y, -1, -1)

\* The magic constants live in found_magics.c: the mask of a square is the
\* set of relevant blockers, the squares of the piece's rays without the
\* last square of each ray.
rook_magic_masks ==
    [square \in Squares |->
        LET x == board_pos_to_x(square)
            y == board_pos_to_y(square)
        IN  {board_pos_from_xy(i, y) : i \in (1..6) \ {x}}
            \cup {board_pos_from_xy(x, j) : j \in (1..6) \ {y}}]

bishop_magic_masks ==
    [square \in Squares |->
        LET x == board_pos_to_x(square)
            y == board_pos_to_y(square)
        IN  {s \in Squares :
                /\ s # square
                /\ board_pos_to_x(s) \in 1..6
                /\ board_pos_to_y(s) \in 1..6
                /\ \/ board_pos_to_x(s) - x = board_pos_to_y(s) - y
                   \/ board_pos_to_x(s) - x = y - board_pos_to_y(s)}]

\* sliding_magic_moves as move_gen_init_sliders fills it: the entry of a
\* masked occupancy is the ray moves generated for that occupancy
rook_move_lookup(occupancy, square) ==
    gen_rook_moves(occupancy \cap rook_magic_masks[square], square)

\* a variant: the bishop's rays stop after one step
bishop_move_lookup_one_step(occupancy, square) == gen_bishop_moves(Squares, square)

bishop_move_lookup(occupancy, square) ==
    gen_bishop_moves(occupancy \cap bishop_magic_masks[square], square)

\* a variant: the queen moves as a rook only
queen_magic_lookup_straight(occupancy, square) == rook_move_lookup(occupancy, square)

queen_magic_lookup(occupancy, square) ==
    rook_move_lookup(occupancy, square) \cup bishop_move_lookup(occupancy, square)

\* move_gen_pawns[player][double_ahead][ahead][pos]
move_gen_pawns ==
    [player \in {WHITE, BLACK} |-> [double_ahead \in 0..1 |-> [ahead \in 0..7 |->
        [pos \in Squares |->
            LET x == board_pos_to_x(pos)
                y == board_pos_to_y(pos)
                dir == IF player = WHITE THEN 1 ELSE -1
                ahead_present == y + dir >= 0 /\ y + dir < 8
                push == IF (ahead \div 2) % 2 = 0 /\ ahead_present
                        THEN {board_pos_from_xy(x, y + dir)}
                             \cup (IF double_ahead = 0
                                      /\ ((player = WHITE /\ y = 1) \/ (player = BLACK /\ y = 6))
                                   THEN {board_pos_from_xy(x, y + 2 * dir)}
                                   ELSE {})
                        ELSE {}
                capl == IF x >= 1 /\ ahead % 2 = 1 /\ ahead_present
                        THEN {board_pos_from_xy(x - 1, y + dir)} ELSE {}
                capr == IF x <= 6 /\ (ahead \div 4) % 2 = 1 /\ ahead_present
                        THEN {board_pos_from_xy(x + 1, y + dir)} ELSE {}
            IN  push \cup capl \cup capr]]]]

\* (occupancy >> shift) & (2^width - 1) for 0 <= shift < 64, as a number
ShiftRightBits(occupancy, shift, width) ==
    LET bit(i) == IF (shift + i) \in occupancy THEN 1 ELSE 0
    IN  IF width = 1 THEN bit(0) ELSE bit(0) + 2 * bit(1) + 4 * bit(2)

\* (occupancy << shift) & (2^width - 1) for 0 <= shift < 64, as a number
ShiftLeftBits(occupancy, shift, width) ==
    LET bit(i) == IF (i - shift) \in occupancy THEN 1 ELSE 0
    IN  IF width = 1 THEN bit(0) ELSE bit(0) + 2 * bit(1) + 4 * bit(2)

\* The values forward_rank / double_forward_rank can take.  A shift by 64
\* or more is undefined in C: every value of the masked width is possible.
forward_rank_values(occupancy, square, player) ==
    LET dir == IF player = WHITE THEN 1 ELSE -1
        forward_shift == square - 1 + dir * 8
    IN  IF forward_shift >= 64 THEN 0..7
        ELSE IF forward_shift >= 0 THEN {ShiftRightBits(occupancy, forward_shift, 3)}
        ELSE {ShiftLeftBits(occupancy, -forward_shift, 3)}

double_forward_rank_values(occupancy, square, player) ==
    LET dir == IF player = WHITE THEN 1 ELSE -1
        double_forward_shift == square + dir * 16
    IN  IF double_forward_shift >= 64 THEN 0..1
        ELSE IF double_forward_shift > 0 THEN {ShiftRightBits(occupancy, double_forward_shift, 1)}
        ELSE {ShiftLeftBits(occupancy, -double_forward_shift, 1)}

\* a variant: the table offers the double push from every rank, so that the
\* undefined double_forward_rank bit shows in the result
pawn_move_lookup_outcomes_any_rank(occupancy, square, player) ==
    {move_gen_pawns[player][d][a][square]
        \cup (IF d = 0 /\ (a \div 2) % 2 = 0
              THEN {(square + (IF player = WHITE THEN 16 ELSE 48)) % 64} ELSE {}) :
        d \in double_forward_rank_values(occupancy, square, player),
        a \in forward_rank_values(occupancy, square, player)}

\* every result pawn_move_lookup can return
pawn_move_lookup_outcomes(occupancy, square, player) ==
    {move_gen_pawns[player][d][a][square] :
        d \in double_forward_rank_values(occupancy, square, player),
        a \in forward_rank_values(occupancy, square, player)}

pawn_move_lookup(occupancy, square, player) ==
    CHOOSE moves \in pawn_move_lookup_outcomes(occupancy, square, player) : TRUE

move_gen_reg_moves_mask(occupancy_for_sliders, occupancy_for_pawns, piece, player, square) ==
    CASE piece = KING -> move_gen_kings[square]
      [] piece = KNIGHT -> move_gen_knights[square]
      [] piece = PAWN -> pawn_move_lookup(occupancy_for_pawns, square, player)
      [] piece = ROOK -> rook_move_lookup(occupancy_for_sliders, square)
      [] piece = BISHOP -> bishop_move_lookup(occupancy_for_sliders, square)
      [] piece = QUEEN -> queen_magic_lookup(occupancy_for_sliders, square)

\* ------------------------------------------------------------------------
\* board queries (bitboard.c)
board_piece_on_square(board, square) ==
    IF \E p \in 0..5 : bitboard_check_square(board.pieces[p], square)
    THEN CHOOSE p \in 0..5 :
            /\ bitboard_check_square(board.pieces[p], square)
            /\ \A q \in 0..5 : bitboard_check_square(board.pieces[q], square) => p <= q
    ELSE -1

board_player_on_square(board, square) ==
    IF bitboard_check_square(board.players[0], square) THEN 0
    ELSE IF bitboard_check_square(board.players[1], square) THEN 1
    ELSE -1

board_player_to_move(board) == IF FlagSet(board.flags.low, BOARD_FLAGS_TURN) THEN 1 ELSE 0

board_get_full_turn_number(board) == board.flags.turn

board_get_en_passant_target(board) ==
    IF ~FlagSet(board.flags.low, BOARD_FLAGS_EP_PRESENT) THEN BOARD_POS_INVALID
    ELSE board.flags.low % (BOARD_FLAGS_EP_SQUARE + 1)

CastleFlag(player, side) ==
    IF player = WHITE
    THEN (IF side = QUEEN THEN BOARD_FLAGS_W_CASTLE_QUEEN ELSE BOARD_FLAGS_W_CASTLE_KING)
    ELSE (IF side = QUEEN THEN BOARD_FLAGS_B_CASTLE_QUEEN ELSE BOARD_FLAGS_B_CASTLE_KING)

board_can_castle(board, player, side) == FlagSet(board.flags.low, CastleFlag(player, side))

\* a variant: the bit of the right is flipped, not cleared
board_clear_castling_flips(board, player, side) ==
    [board EXCEPT !.flags.low = IF FlagSet(@, CastleFlag(player, side))
                                THEN @ - CastleFlag(player, side)
                                ELSE @ + CastleFlag(player, side)]

\* a variant: clearing one right of a player clears the other as well
board_clear_castling_both_sides(board, player, side) ==
    [board EXCEPT !.flags.low = FlagClear(FlagClear(@, CastleFlag(player, KING)),
                                          CastleFlag(player, QUEEN))]

board_clear_castling(board, player, side) ==
    [board EXCEPT !.flags.low = FlagClear(@, CastleFlag(player, side))]

board_occupancy_for_sliders_lookups(board) == board.players[WHITE] \cup board.players[BLACK]

\* a variant: the en passant target is not added to the occupancy
board_occupancy_for_pawns_lookups_no_target(board) ==
    board.players[WHITE] \cup board.players[BLACK]

board_occupancy_for_pawns_lookups(board) ==
    LET occupancy == board.players[WHITE] \cup board.players[BLACK]
    IN  IF FlagSet(board.flags.low, BOARD_FLAGS_EP_PRESENT)
        THEN bitboard_set_square(occupancy, board.flags.low % (BOARD_FLAGS_EP_SQUARE + 1))
        ELSE occupancy

\* the assertions of board_invariants
board_invariants(board) ==
    /\ board.players[0] \cap board.players[1] = {}
    /\ \A i, j \in 0..5 : i # j => board.pieces[i] \cap board.pieces[j] = {}
    /\ bitboard_popcount(board.players[0] \cap board.pieces[KING]) = 1
    /\ bitboard_popcount(board.players[1] \cap board.pieces[KING]) = 1
    /\ FlagSet(board.flags.low, BOARD_FLAGS_EP_PRESENT) =>
          LET ep_target == board.flags.low % (BOARD_FLAGS_EP_SQUARE + 1)
              y == board_pos_to_y(ep_target)
          IN  /\ \/ board_player_to_move(board) = WHITE /\ y = 5
                 \/ board_player_to_move(board) = BLACK /\ y = 2
              /\ ~bitboard_check_square(board.players[0] \cap board.players[1], ep_target)

\* ------------------------------------------------------------------------
\* move encoding (move_gen.c).  high holds bits 43..63, which construct_move
\* leaves clear and MOVE_END sets.
MOVE_END ==
    [prev_flags |-> 65535, src |-> 63, dst |-> 63, is_promote |-> 1,
     promote_piece |-> 7, is_capture |-> 1, capture_piece |-> 7,
     capture_square |-> 63, is_castle |-> 1, high |-> 2097151]

\* the value of `n` cast to uint64_t, shifted and masked to `width` bits
Field(n, width) == n % width

construct_move(board_flags, src, dst, is_promotion, promote_piece, is_capture, capture_piece, capture_pos, is_castle) ==
    [prev_flags |-> board_flags.low,
     src |-> Field(src, 64),
     dst |-> Field(dst, 64),
     is_promote |-> IF is_promotion # 0 THEN 1 ELSE 0,
     promote_piece |-> Field(promote_piece, 8),
     is_capture |-> IF is_capture # 0 THEN 1 ELSE 0,
     capture_piece |-> Field(capture_piece, 8),
     capture_square |-> Field(capture_pos, 64),
     is_castle |-> IF is_castle # 0 THEN 1 ELSE 0,
     high |-> 0]

move_source_square(move) == move.src

move_destination_square(move) == move.dst

move_is_promotion(move) == move.is_promote

move_promotion_piece(move) == IF move.is_promote = 0 THEN -1 ELSE move.promote_piece

move_is_capture(move) == move.is_capture

move_capture_piece(move) == IF move.is_capture = 0 THEN -1 ELSE move.capture_piece

\* a variant: the capture square is taken to be the destination
move_capture_square_is_dst(move) ==
    IF move.is_capture = 0 THEN BOARD_POS_INVALID ELSE move.dst

move_capture_square(move) ==
    IF move.is_capture = 0 THEN BOARD_POS_INVALID ELSE move.capture_square

move_is_castle(move) == move.is_castle

\* defined for targets on rank 3 or 6 (the code asserts it)
\* a variant: the pawn is looked for on the side of the target it came from
en_passant_target_to_pawn_pos_behind(ep_target) ==
    LET x == board_pos_to_x(ep_target)
        y == board_pos_to_y(ep_target)
    IN  IF y = 2 THEN board_pos_from_xy(x, y - 1) ELSE board_pos_from_xy(x, y + 1)

en_passant_target_to_pawn_pos(ep_target) ==
    LET x == board_pos_to_x(ep_target)
        y == board_pos_to_y(ep_target)
    IN  IF y = 2 THEN board_pos_from_xy(x, y + 1) ELSE board_pos_from_xy(x, y - 1)

\* ------------------------------------------------------------------------
\* attack query
\* a variant: the queens are left out of the rook and bishop hits
board_is_square_attacked_no_queen(board, square, attacking_player) ==
    LET defending_player == 1 - attacking_player
        occ_slide == board_occupancy_for_sliders_lookups(board)
        occ_pawn == board_occupancy_for_pawns_lookups(board)
        hits(piece, set) ==
            move_gen_reg_moves_mask(occ_slide, occ_pawn, piece, defending_player, square)
            \cap set
    IN  (hits(KING, board.pieces[KING]) \cup hits(PAWN, board.pieces[PAWN])
         \cup hits(KNIGHT, board.pieces[KNIGHT])
         \cup hits(ROOK, board.pieces[ROOK])
         \cup hits(BISHOP, board.pieces[BISHOP]))
        \cap board.players[attacking_player]

\* a variant: the pawn placed on the square is one of the attacking player
board_is_square_attacked_own_pawn(board, square, attacking_player) ==
    LET defending_player == 1 - attacking_player
        occ_slide == board_occupancy_for_sliders_lookups(board)
        occ_pawn == board_occupancy_for_pawns_lookups(board)
        hits(piece, player, set) ==
            move_gen_reg_moves_mask(occ_slide, occ_pawn, piece, player, square) \cap set
    IN  (hits(KING, defending_player, board.pieces[KING])
         \cup hits(PAWN, attacking_player, board.pieces[PAWN])
         \cup hits(KNIGHT, defending_player, board.pieces[KNIGHT])
         \cup hits(ROOK, defending_player, board.pieces[ROOK] \cup board.pieces[QUEEN])
         \cup hits(BISHOP, defending_player, board.pieces[BISHOP] \cup board.pieces[QUEEN]))
        \cap board.players[attacking_player]

board_is_square_attacked(board, square, attacking_player) ==
    LET defending_player == 1 - attacking_player
        occ_slide == board_occupancy_for_sliders_lookups(board)
        occ_pawn == board_occupancy_for_pawns_lookups(board)
        hits(piece, set) ==
            move_gen_reg_moves_mask(occ_slide, occ_pawn, piece, defending_player, square)
            \cap set
    IN  (hits(KING, board.pieces[KING]) \cup hits(PAWN, board.pieces[PAWN])
         \cup hits(KNIGHT, board.pieces[KNIGHT])
         \cup hits(ROOK, board.pieces[ROOK] \cup board.pieces[QUEEN])
         \cup hits(BISHOP, board.pieces[BISHOP] \cup board.pieces[QUEEN]))
        \cap board.players[attacking_player]

\* a variant: only pawns and knights are looked for
board_player_in_check_near(board, player) ==
    LET king_mask == board.pieces[KING] \cap board.players[player]
        king_pos == bitboard_scan_lsb(king_mask)
    IN  board_is_square_attacked(board, king_pos, 1 - player)
        \cap (board.pieces[PAWN] \cup board.pieces[KNIGHT])

board_player_in_check(board, player) ==
    LET king_mask == board.pieces[KING] \cap board.players[player]
        king_pos == bitboard_scan_lsb(king_mask)
    IN  board_is_square_attacked(board, king_pos, 1 - player)

\* ------------------------------------------------------------------------
\* make / unmake
move_gen_make_castle(board, move) ==
    LET dst == move_destination_square(move)
        src == move_source_square(move)
        player == board_player_to_move(board)
        side == IF board_pos_to_x(dst) = 2 THEN QUEEN ELSE KING
        y == IF player = WHITE THEN 0 ELSE 7
        rook_src == IF side = QUEEN THEN board_pos_from_xy(0, y) ELSE board_pos_from_xy(7, y)
        rook_dst == IF side = QUEEN THEN board_pos_from_xy(3, y) ELSE board_pos_from_xy(5, y)
        b1 == [board EXCEPT
                 !.players[player] = ((((@ \ {src}) \cup {dst}) \ {rook_src}) \cup {rook_dst}),
                 !.pieces[KING] = (@ \ {src}) \cup {dst}]
        b2 == [b1 EXCEPT !.pieces[ROOK] = (@ \ {rook_src}) \cup {rook_dst}]
    IN  board_clear_castling(board_clear_castling(b2, player, QUEEN), player, KING)

\* a variant: a rook leaving or taken on its corner costs no right
RevokeForRookNever(board, owner, square) == board

\* the rook-home squares whose occupant moving or being captured revokes a right
RevokeForRook(board, owner, square) ==
    IF owner = WHITE /\ square = board_pos_from_xy(0, 0) THEN board_clear_castling(board, WHITE, QUEEN)
    ELSE IF owner = WHITE /\ square = board_pos_from_xy(7, 0) THEN board_clear_castling(board, WHITE, KING)
    ELSE IF owner = BLACK /\ square = board_pos_from_xy(0, 7) THEN board_clear_castling(board, BLACK, QUEEN)
    ELSE IF owner = BLACK /\ square = board_pos_from_xy(7, 7) THEN board_clear_castling(board, BLACK, KING)
    ELSE board

\* a variant: the captured piece stays in its piece-kind bitboard
MakeCaptureKeepsKind(board, move, dst, opponent) ==
    LET ep_target == board_get_en_passant_target(board)
        cap_square == IF ep_target # BOARD_POS_INVALID /\ ep_target = dst
                      THEN en_passant_target_to_pawn_pos(ep_target)
                      ELSE move_capture_square(move)
    IN  [board EXCEPT !.players[opponent] = bitboard_clear_square(@, cap_square)]

\* the capture step of board_make_move (lines 645-673)
MakeCapture(board, move, dst, opponent) ==
    LET ep_target == board_get_en_passant_target(board)
        cap_square == IF ep_target # BOARD_POS_INVALID /\ ep_target = dst
                      THEN en_passant_target_to_pawn_pos(ep_target)
                      ELSE move_capture_square(move)
        cap_piece == board_piece_on_square(board, cap_square)
        b1 == [board EXCEPT !.players[opponent] = bitboard_clear_square(@, cap_square),
                            !.pieces[cap_piece] = bitboard_clear_square(@, cap_square)]
    IN  IF cap_piece = ROOK THEN RevokeForRook(b1, opponent, cap_square) ELSE b1

\* a variant: the half that is cleared before the turn number is written is
\* the low one
SetTurnNumberClearsLow(flags, turn_number) ==
    [low |-> 0, turn |-> turn_number % TurnModulus]

\* flags &= BOARD_FLAGS_LOW;
\* flags |= (turn_number << BOARD_FLAGS_TURN_NUM_SHIFT) & BOARD_FLAGS_TURN_NUM;
\* half by half: the first statement zeroes the high half; the shift, taken
\* in 32 bits, puts the low 16 bits of turn_number in the high half and
\* zeroes in the low one (65536 << 16 is 0, -1 << 16 is 0xffff0000), the
\* mask keeps the high half of that, and the or joins the two
SetTurnNumber(flags, turn_number) ==
    LET cleared == [low |-> flags.low, turn |-> 0]
        shifted == [low |-> 0, turn |-> turn_number % TurnModulus]
        masked == [low |-> 0, turn |-> shifted.turn]
    IN  [low |-> cleared.low + masked.low, turn |-> cleared.turn + masked.turn]

\* a variant: a target that is present stays when the move is no double push
MakeFlagsKeepsTarget(board, piece, src, dst, player) ==
    LET low0 == board.flags.low
        low1 == IF piece = PAWN /\ (src - dst = 16 \/ dst - src = 16)
                THEN LET ep_target == IF dst > src THEN src + 8 ELSE src - 8
                     IN  (FlagClear(low0, BOARD_FLAGS_EP_PRESENT)
                          - (low0 % (BOARD_FLAGS_EP_SQUARE + 1)))
                         + BOARD_FLAGS_EP_PRESENT
                         + (ep_target % (BOARD_FLAGS_EP_SQUARE + 1))
                ELSE low0
        turn1 == IF player = BLACK
                 THEN (board_get_full_turn_number(board) + 1) % TurnModulus
                 ELSE board.flags.turn
        low2 == IF FlagSet(low1, BOARD_FLAGS_TURN)
                THEN low1 - BOARD_FLAGS_TURN ELSE low1 + BOARD_FLAGS_TURN
    IN  [board EXCEPT !.flags = [low |-> low2, turn |-> turn1]]

\* a variant: the turn number is incremented after either player's move
MakeFlagsCountsEveryMove(board, piece, src, dst, player) ==
    LET low0 == FlagClear(board.flags.low, BOARD_FLAGS_EP_PRESENT)
        low1 == IF piece = PAWN /\ (src - dst = 16 \/ dst - src = 16)
                THEN LET ep_target == IF dst > src THEN src + 8 ELSE src - 8
                     IN  (low0 - (low0 % (BOARD_FLAGS_EP_SQUARE + 1)))
                         + BOARD_FLAGS_EP_PRESENT
                         + (ep_target % (BOARD_FLAGS_EP_SQUARE + 1))
                ELSE low0
        turn1 == (board_get_full_turn_number(board) + 1) % TurnModulus
        low2 == IF FlagSet(low1, BOARD_FLAGS_TURN)
                THEN low1 - BOARD_FLAGS_TURN ELSE low1 + BOARD_FLAGS_TURN
    IN  [board EXCEPT !.flags = [low |-> low2, turn |-> turn1]]

\* a variant: the en passant target is the square the pawn lands on
MakeFlagsTargetsPawn(board, piece, src, dst, player) ==
    LET low0 == FlagClear(board.flags.low, BOARD_FLAGS_EP_PRESENT)
        low1 == IF piece = PAWN /\ (src - dst = 16 \/ dst - src = 16)
                THEN (low0 - (low0 % (BOARD_FLAGS_EP_SQUARE + 1)))
                     + BOARD_FLAGS_EP_PRESENT
                     + (dst % (BOARD_FLAGS_EP_SQUARE + 1))
                ELSE low0
        turn1 == IF player = BLACK
                 THEN (board_get_full_turn_number(board) + 1) % TurnModulus
                 ELSE board.flags.turn
        low2 == IF FlagSet(low1, BOARD_FLAGS_TURN)
                THEN low1 - BOARD_FLAGS_TURN ELSE low1 + BOARD_FLAGS_TURN
    IN  [board EXCEPT !.flags = [low |-> low2, turn |-> turn1]]

\* the en passant target and turn bookkeeping of board_make_move (lines 681-712)
MakeFlags(board, piece, src, dst, player) ==
    LET low0 == FlagClear(board.flags.low, BOARD_FLAGS_EP_PRESENT)
        low1 == IF piece = PAWN /\ (src - dst = 16 \/ dst - src = 16)
                THEN LET ep_target == IF dst > src THEN src + 8 ELSE src - 8
                     IN  (low0 - (low0 % (BOARD_FLAGS_EP_SQUARE + 1)))
                         + BOARD_FLAGS_EP_PRESENT
                         + (ep_target % (BOARD_FLAGS_EP_SQUARE + 1))
                ELSE low0
        counted == IF player = BLACK
                   THEN SetTurnNumber([low |-> low1, turn |-> board.flags.turn],
                                      board_get_full_turn_number(board) + 1)
                   ELSE [low |-> low1, turn |-> board.flags.turn]
        flipped(flags) ==
            [flags EXCEPT !.low = IF FlagSet(@, BOARD_FLAGS_TURN)
                                  THEN @ - BOARD_FLAGS_TURN ELSE @ + BOARD_FLAGS_TURN]
    IN  [board EXCEPT !.flags = flipped(counted)]

board_make_move(board, move) ==
    LET src == move_source_square(move)
        dst == move_destination_square(move)
        piece == board_piece_on_square(board, src)
        dst_piece == IF move_is_promotion(move) = 1 THEN move_promotion_piece(move) ELSE piece
        player == board_player_to_move(board)
        opponent == 1 - player
        moved ==
            IF move_is_castle(move) = 1 THEN move_gen_make_castle(board, move)
            ELSE LET b1 == IF piece = KING
                           THEN board_clear_castling(board_clear_castling(board, player, KING),
                                                     player, QUEEN)
                           ELSE board
                     b2 == IF piece = ROOK THEN RevokeForRook(b1, player, src) ELSE b1
                     b3 == IF move_is_capture(move) = 1
                           THEN MakeCapture(b2, move, dst, opponent) ELSE b2
                     b4 == [b3 EXCEPT !.pieces[dst_piece] = bitboard_set_square(@, dst)]
                     b5 == [b4 EXCEPT !.players[player] = bitboard_set_square(@, dst)]
                     b6 == [b5 EXCEPT !.pieces[piece] = bitboard_clear_square(@, src)]
                 IN  [b6 EXCEPT !.players[player] = bitboard_clear_square(@, src)]
    IN  MakeFlags(moved, piece, src, dst, player)

board_unmake_move(board, move) ==
    LET restored == [board EXCEPT !.flags.low = move.prev_flags]
        src == move_source_square(move)
        dst == move_destination_square(move)
        piece_dst == board_piece_on_square(restored, dst)
        piece_src == IF move_is_promotion(move) = 1 THEN PAWN ELSE piece_dst
        player == board_player_to_move(restored)
        opponent == 1 - player
        b0 == IF player = BLACK
              THEN [restored EXCEPT
                       !.flags = SetTurnNumber(@, board_get_full_turn_number(restored) - 1)]
              ELSE restored
        b1 == [b0 EXCEPT !.pieces[piece_dst] = bitboard_clear_square(@, dst)]
        b2 == [b1 EXCEPT !.players[player] = bitboard_clear_square(@, dst)]
        b3 == [b2 EXCEPT !.pieces[piece_src] = bitboard_set_square(@, src)]
        b4 == [b3 EXCEPT !.players[player] = bitboard_set_square(@, src)]
        b5 == IF move_is_capture(move) = 1
              THEN LET cap_piece == move_capture_piece(move)
                       cap_square == move_capture_square(move)
                   IN  [b4 EXCEPT !.pieces[cap_piece] = bitboard_set_square(@, cap_square),
                                  !.players[opponent] = bitboard_set_square(@, cap_square)]
              ELSE b4
    IN  IF move_is_castle(move) = 1
        THEN LET side == IF board_pos_to_x(dst) = 2 THEN QUEEN ELSE KING
                 rook_y == IF player = WHITE THEN 0 ELSE 7
                 rook_src == board_pos_from_xy(IF side = QUEEN THEN 0 ELSE 7, rook_y)
                 rook_dst == board_pos_from_xy(IF side = QUEEN THEN 3 ELSE 5, rook_y)
                 c1 == [b5 EXCEPT !.players[player] = (@ \cup {rook_src}) \ {rook_dst}]
             IN  [c1 EXCEPT !.pieces[ROOK] = (@ \cup {rook_src}) \ {rook_dst}]
        ELSE b5

\* ------------------------------------------------------------------------
\* move generator
move_gen_init(board) ==
    [occupancy_for_sliders |-> board_occupancy_for_sliders_lookups(board),
     occupancy_for_pawns |-> board_occupancy_for_pawns_lookups(board),
     final_moves_mask |-> Squares \ board.players[board_player_to_move(board)],
     cur_mode |-> MOVE_GEN_MODE_NORMAL,
     cur_square |-> 0,
     cur_moves |-> {},
     cur_promotion |-> KNIGHT,
     cur_piece_type |-> 0,
     done |-> 0,
     hit_move |-> 0]

\* a variant: the step from knight passes over the rook
move_gen_next_promote_skips_rook(generator) ==
    [generator EXCEPT !.cur_promotion =
        CASE @ = KNIGHT -> BISHOP
          [] @ = BISHOP -> QUEEN
          [] OTHER -> KNIGHT]

\* a variant: the promotion kinds cycle knight, bishop, rook, queen
move_gen_next_promote_by_value(generator) ==
    [generator EXCEPT !.cur_promotion =
        CASE @ = KNIGHT -> BISHOP
          [] @ = BISHOP -> ROOK
          [] @ = ROOK -> QUEEN
          [] OTHER -> KNIGHT]

\* a variant: the promotion kinds go round without the queen
move_gen_next_promote_without_queen(generator) ==
    IF generator.cur_promotion + 1 > BISHOP
    THEN [generator EXCEPT !.cur_promotion = KNIGHT]
    ELSE [generator EXCEPT !.cur_promotion = @ + 1]

move_gen_next_promote(generator) ==
    IF generator.cur_promotion + 1 > QUEEN
    THEN [generator EXCEPT !.cur_promotion = KNIGHT]
    ELSE [generator EXCEPT !.cur_promotion = @ + 1]

\* returns the updated generator and the move built
move_gen_next_from_cur_moves(generator, board) ==
    LET dst == bitboard_scan_lsb(generator.cur_moves)
        is_promote == IF generator.cur_piece_type = PAWN
                         /\ (dst \div 8 = 0 \/ dst \div 8 = 7)
                      THEN 1 ELSE 0
        g1 == IF is_promote = 0 \/ generator.cur_promotion = QUEEN
              THEN [generator EXCEPT !.cur_moves = bitboard_clear_square(@, dst)]
              ELSE generator
        player == board_player_to_move(board)
        opponent == 1 - player
        hit == bitboard_check_square(board.players[opponent], dst)
        ep_target == board_get_en_passant_target(board)
        ep == generator.cur_piece_type = PAWN
              /\ ep_target # BOARD_POS_INVALID /\ dst = ep_target
        is_capture == IF hit \/ ep THEN 1 ELSE 0
        capture_piece == IF ep THEN PAWN
                         ELSE IF hit THEN board_piece_on_square(board, dst) ELSE 0
        capture_pos == IF ep THEN en_passant_target_to_pawn_pos(ep_target)
                       ELSE IF hit THEN dst ELSE 0
        res == construct_move(board.flags, generator.cur_square, dst, is_promote,
                              generator.cur_promotion, is_capture, capture_piece,
                              capture_pos, 0)
    IN  [gen |-> IF is_promote = 1 THEN move_gen_next_promote(g1) ELSE g1,
         move |-> res]

\* the first loop of move_gen_castle (lines 859-864): a piece stands between
\* the king and the rook
CastleBlocked(generator, y, side) ==
    \E x \in (IF side = QUEEN THEN {3, 2, 1} ELSE {5, 6}) :
        bitboard_check_square(generator.occupancy_for_sliders, board_pos_from_xy(x, y))

\* a variant: the loop starts one square late and lets the king castle out of check
CastleThreatenedSkipsKing(board, player, side) ==
    LET y == IF player = WHITE THEN 0 ELSE 7
        dir == IF side = QUEEN THEN -1 ELSE 1
    IN  \E i \in 1..2 :
            board_is_square_attacked(board, board_pos_from_xy(4 + i * dir, y), 1 - player) # {}

\* a variant: the loop stops one square early and lets the king land on an
\* attacked square
CastleThreatenedStopsEarly(board, player, side) ==
    LET y == IF player = WHITE THEN 0 ELSE 7
        dir == IF side = QUEEN THEN -1 ELSE 1
    IN  \E i \in 0..1 :
            board_is_square_attacked(board, board_pos_from_xy(4 + i * dir, y), 1 - player) # {}

\* the second loop of move_gen_castle (lines 866-872): one of the three
\* squares from the king's to its destination is attacked
CastleThreatened(board, player, side) ==
    LET y == IF player = WHITE THEN 0 ELSE 7
        dir == IF side = QUEEN THEN -1 ELSE 1
    IN  \E i \in 0..2 :
            board_is_square_attacked(board, board_pos_from_xy(4 + i * dir, y), 1 - player) # {}

\* returns the board after the call and the castle move, or MOVE_END
move_gen_castle(generator, board, player, side, undo_move) ==
    LET y == IF player = WHITE THEN 0 ELSE 7
        dir == IF side = QUEEN THEN -1 ELSE 1
        king == board_pos_from_xy(4, y)
        move == construct_move(board.flags, king,
                               board_pos_from_xy(board_pos_to_x(king) + 2 * dir, y),
                               0, 0, 0, 0, 0, 1)
    IN  IF ~board_can_castle(board, player, side) THEN [board |-> board, move |-> MOVE_END]
        ELSE IF CastleBlocked(generator, y, side) THEN [board |-> board, move |-> MOVE_END]
        ELSE IF CastleThreatened(board, player, side) THEN [board |-> board, move |-> MOVE_END]
        ELSE [board |-> IF undo_move = 0 THEN board_make_move(board, move) ELSE board,
              move |-> move]

\* a variant: the loop stops at the first square other than the current one
\* that holds a piece of the current kind, behind the cursor or ahead of it
move_gen_advance_any_square(generator, board, player_mask) ==
    LET same_kind == {s \in board.pieces[generator.cur_piece_type] \cap player_mask :
                         s # generator.cur_square}
        later_kinds == {p \in (generator.cur_piece_type + 1)..QUEEN :
                           board.pieces[p] \cap player_mask # {}}
        next_kind == CHOOSE p \in later_kinds : \A q \in later_kinds : p <= q
    IN  IF same_kind # {}
        THEN [generator EXCEPT !.cur_square = bitboard_scan_lsb(same_kind)]
        ELSE IF later_kinds # {}
        THEN [generator EXCEPT
                 !.cur_piece_type = next_kind,
                 !.cur_square = bitboard_scan_lsb(board.pieces[next_kind] \cap player_mask)]
        ELSE [generator EXCEPT !.cur_piece_type = QUEEN + 1,
                               !.cur_square = 0,
                               !.cur_mode = MOVE_GEN_MODE_CASTLE_KING]

\* the do-while loop of move_gen_next (lines 943-956) in closed form.  The
\* loop steps cur_square, then cur_piece_type, BEFORE it tests a square, so
\* it stops at the first (kind, square) pair strictly after the current one,
\* in kind-major order, that holds a piece of the player; with none left it
\* leaves cur_piece_type = QUEEN + 1, cur_square = 0 and moves on to castles
move_gen_advance(generator, board, player_mask) ==
    LET same_kind == {s \in board.pieces[generator.cur_piece_type] \cap player_mask :
                         s > generator.cur_square}
        later_kinds == {p \in (generator.cur_piece_type + 1)..QUEEN :
                           board.pieces[p] \cap player_mask # {}}
        next_kind == CHOOSE p \in later_kinds : \A q \in later_kinds : p <= q
    IN  IF same_kind # {}
        THEN [generator EXCEPT !.cur_square = bitboard_scan_lsb(same_kind)]
        ELSE IF later_kinds # {}
        THEN [generator EXCEPT
                 !.cur_piece_type = next_kind,
                 !.cur_square = bitboard_scan_lsb(board.pieces[next_kind] \cap player_mask)]
        ELSE [generator EXCEPT !.cur_piece_type = QUEEN + 1,
                               !.cur_square = 0,
                               !.cur_mode = MOVE_GEN_MODE_CASTLE_KING]

\* a variant: the generator that has come to its end starts over
move_gen_next_end_rewinds(generator, board, player) ==
    [move_gen_init(board) EXCEPT !.done = MOVE_DONE_NORMAL]

\* the branch of move_gen_next for MOVE_GEN_MODE_END (lines 895-906): the
\* generator as it is left when MOVE_END is returned
move_gen_next_end(generator, board, player) ==
    [generator EXCEPT !.done =
        IF generator.hit_move = 1 THEN MOVE_DONE_NORMAL
        ELSE IF board_player_in_check(board, player) # {}
        THEN MOVE_DONE_CHECKMATE
        ELSE MOVE_DONE_STALEMATE]

\* one call of move_gen_next is followed through at most 2^SelfCallBits of
\* its calls to itself
SelfCallBits == 9

\* one pass through the body of move_gen_next, up to its return statement.
\* `again` tells that the statement is `return move_gen_next(generator,
\* undo_moves)`, to be run on the generator and board as gen and board give
\* them; otherwise ret is the value returned
move_gen_next_body(generator, board, undo_moves) ==
    LET player == board_player_to_move(board)
    IN  CASE generator.cur_mode = MOVE_GEN_MODE_END ->
               [gen |-> move_gen_next_end(generator, board, player),
                board |-> board,
                ret |-> MOVE_END,
                again |-> FALSE]
          [] generator.cur_mode \in {MOVE_GEN_MODE_CASTLE_KING, MOVE_GEN_MODE_CASTLE_QUEEN} ->
               LET king_side == generator.cur_mode = MOVE_GEN_MODE_CASTLE_KING
                   castled(g1, castle) ==
                       IF castle.move # MOVE_END
                       THEN [gen |-> [g1 EXCEPT !.hit_move = 1],
                             board |-> castle.board,
                             ret |-> castle.move,
                             again |-> FALSE]
                       ELSE [gen |-> g1, board |-> castle.board, ret |-> MOVE_END,
                             again |-> TRUE]
                   moded(g1) ==
                       castled(g1, move_gen_castle(g1, board, player,
                                                   IF king_side THEN KING ELSE QUEEN,
                                                   undo_moves))
               IN  moded([generator EXCEPT !.cur_mode =
                             IF king_side THEN MOVE_GEN_MODE_CASTLE_QUEEN
                             ELSE MOVE_GEN_MODE_END])
          [] generator.cur_mode = MOVE_GEN_MODE_NORMAL ->
               IF generator.cur_moves # {}
               THEN LET tried(built, made, in_check) ==
                            IF in_check
                            THEN [gen |-> built.gen,
                                  board |-> board_unmake_move(made, built.move),
                                  ret |-> MOVE_END,
                                  again |-> TRUE]
                            ELSE [gen |-> [built.gen EXCEPT !.hit_move = 1],
                                  board |-> IF undo_moves # 0
                                            THEN board_unmake_move(made, built.move)
                                            ELSE made,
                                  ret |-> built.move,
                                  again |-> FALSE]
                        applied(built, made) ==
                            tried(built, made, board_player_in_check(made, player) # {})
                        constructed(built) ==
                            applied(built, board_make_move(board, built.move))
                    IN  constructed(move_gen_next_from_cur_moves(generator, board))
               ELSE LET advanced(g1) ==
                            IF g1.cur_mode = MOVE_GEN_MODE_CASTLE_KING
                            THEN [gen |-> g1, board |-> board, ret |-> MOVE_END,
                                  again |-> TRUE]
                            ELSE [gen |-> [g1 EXCEPT !.cur_moves =
                                              move_gen_reg_moves_mask(
                                                  g1.occupancy_for_sliders,
                                                  g1.occupancy_for_pawns,
                                                  g1.cur_piece_type, player, g1.cur_square)
                                              \cap g1.final_moves_mask],
                                  board |-> board,
                                  ret |-> MOVE_END,
                                  again |-> TRUE]
                    IN  advanced(move_gen_advance(generator, board, board.players[player]))

\* move_gen_next calls itself only in its return statements, so that its
\* calls to itself are the passes of a loop: up to 2^k passes, starting from
\* the outcome r of the passes before, until one returns a value
RECURSIVE move_gen_next_loop(_, _, _)
move_gen_next_loop(r, undo_moves, k) ==
    IF ~r.again THEN r
    ELSE IF k = 0 THEN move_gen_next_body(r.gen, r.board, undo_moves)
    ELSE move_gen_next_loop(move_gen_next_loop(r, undo_moves, k - 1), undo_moves, k - 1)

\* one call of move_gen_next with all the calls it makes to itself; returns
\* the generator and board as the call leaves them and the value returned
move_gen_next(generator, board, undo_moves) ==
    LET left(r) ==
            [gen |-> r.gen,
             board |-> r.board,
             ret |-> IF r.again THEN "more than 2^SelfCallBits passes" ELSE r.ret]
    IN  left(move_gen_next_loop([gen |-> generator, board |-> board, ret |-> MOVE_END,
                                 again |-> TRUE],
                                undo_moves, SelfCallBits))

\* a variant: the move returned is left applied
move_gen_next_move_keeps(generator, board) == move_gen_next(generator, board, 0)

move_gen_next_move(generator, board) == move_gen_next(generator, board, 1)

\* a variant: the move returned is rolled back
move_gen_make_next_move_undoes(generator, board) == move_gen_next(generator, board, 1)

move_gen_make_next_move(generator, board) == move_gen_next(generator, board, 0)

move_gen_is_checkmate(generator) == generator.done = MOVE_DONE_CHECKMATE

\* a variant: the answer of move_gen_is_checkmate given for stalemate
move_gen_is_stalemate_when_mate(generator) == generator.done = MOVE_DONE_CHECKMATE

move_gen_is_stalemate(generator) == generator.done = MOVE_DONE_STALEMATE

\* ------------------------------------------------------------------------
\* FEN (bitboard.c).  A C string is the sequence of its characters, each a
\* one-character string; reading at the terminator gives NUL.
NUL == "NUL"

CharAt(str, i) == IF i >= 1 /\ i <= Len(str) THEN str[i] ELSE NUL

isspace(c) == c = " "

FileChars == <<"a", "b", "c", "d", "e", "f", "g", "h">>

UpperFileChars == <<"A", "B", "C", "D", "E", "F", "G", "H">>

DigitChars == <<"0", "1", "2", "3", "4", "5", "6", "7", "8", "9">>

\* c - '0' for a digit character
DigitValue(c) == (CHOOSE i \in 1..10 : DigitChars[i] = c) - 1

IsDigit(c) == \E i \in 1..10 : DigitChars[i] = c

piece_str == << <<"K", "P", "N", "R", "B", "Q">>, <<"k", "p", "n", "r", "b", "q">> >>

board_piece_char_from_piece_player(piece, player) == piece_str[player + 1][piece + 1]

\* defined for the twelve piece letters (the code asserts it)
board_piece_char_to_piece(c) ==
    CASE c \in {"P", "p"} -> PAWN
      [] c \in {"N", "n"} -> KNIGHT
      [] c \in {"B", "b"} -> BISHOP
      [] c \in {"R", "r"} -> ROOK
      [] c \in {"Q", "q"} -> QUEEN
      [] c \in {"K", "k"} -> KING

board_piece_char_to_player(c) ==
    CASE c \in {"P", "N", "B", "R", "Q", "K"} -> WHITE
      [] c \in {"p", "n", "b", "r", "q", "k"} -> BLACK

board_pos_to_str(pos) ==
    <<FileChars[board_pos_to_x(pos) + 1], DigitChars[board_pos_to_y(pos) + 2]>>

\* defined for a file letter followed by a rank digit (the code asserts it)
board_pos_from_str(str) ==
    LET x == IF \E i \in 1..8 : FileChars[i] = str[1]
             THEN (CHOOSE i \in 1..8 : FileChars[i] = str[1]) - 1
             ELSE (CHOOSE i \in 1..8 : UpperFileChars[i] = str[1]) - 1
        y == DigitValue(str[2]) - 1
    IN  board_pos_from_xy(x, y)

\* the inner while loop of the piece placement (lines 267-280) with the
\* fen_string++ that follows it: one rank; returns the board and the index of
\* the next character
RECURSIVE FenReadRank(_, _, _, _, _)
FenReadRank(str, i, rank, file, board) ==
    LET c == CharAt(str, i)
    IN  IF c = "/" \/ isspace(c)
        THEN [board |-> board, next |-> i + 1]
        ELSE IF c \in {"1", "2", "3", "4", "5", "6", "7", "8"}
        THEN FenReadRank(str, i + 1, rank, file + DigitValue(c), board)
        ELSE LET player == board_piece_char_to_player(c)
                 piece == board_piece_char_to_piece(c)
                 square == board_pos_from_xy(file, rank)
             IN  FenReadRank(str, i + 1, rank, file + 1,
                     [board EXCEPT
                         !.players[player] = bitboard_set_square(@, square),
                         !.pieces[piece] = bitboard_set_square(@, square)])

\* the piece placement loop of board_from_fen_str (lines 265-282), ranks
\* rank..0; returns the board and the index of the next character.  A rank
\* always consumes its terminating character (r.next > i); the comparison
\* has the rank read before the next one is started
RECURSIVE FenReadPlacement(_, _, _, _)
FenReadPlacement(str, i, rank, board) ==
    IF rank < 0 THEN [board |-> board, next |-> i]
    ELSE LET read(r) ==
                 IF r.next > i THEN FenReadPlacement(str, r.next, rank - 1, r.board)
                 ELSE r
         IN  read(FenReadRank(str, i, rank, 0, board))

RECURSIVE SkipSpace(_, _)
SkipSpace(str, i) == IF isspace(CharAt(str, i)) THEN SkipSpace(str, i + 1) ELSE i

RECURSIVE SkipNonSpace(_, _)
SkipNonSpace(str, i) ==
    IF ~isspace(CharAt(str, i)) /\ i <= Len(str) THEN SkipNonSpace(str, i + 1) ELSE i

\* the castling availability loop (lines 303-323); returns flags and index
RECURSIVE FenReadCastling(_, _, _)
FenReadCastling(str, i, low) ==
    LET c == CharAt(str, i)
    IN  IF c \in {"K", "Q", "k", "q", "-"}
        THEN FenReadCastling(str, i + 1,
                 CASE c = "K" -> FlagOr(low, BOARD_FLAGS_W_CASTLE_KING)
                   [] c = "Q" -> FlagOr(low, BOARD_FLAGS_W_CASTLE_QUEEN)
                   [] c = "k" -> FlagOr(low, BOARD_FLAGS_B_CASTLE_KING)
                   [] c = "q" -> FlagOr(low, BOARD_FLAGS_B_CASTLE_QUEEN)
                   [] c = "-" -> low)
        ELSE [low |-> low, next |-> i]

\* the turn counter characters copied into turn_count_str (lines 353-360)
RECURSIVE FenTurnChars(_, _, _)
FenTurnChars(str, i, count) ==
    LET c == CharAt(str, i)
    IN  IF c # NUL /\ ~isspace(c) /\ count < 5
        THEN <<c>> \o FenTurnChars(str, i + 1, count + 1)
        ELSE <<>>

\* atoi on an unsigned decimal prefix
RECURSIVE atoi_from(_, _, _)
atoi_from(str, i, acc) ==
    IF IsDigit(CharAt(str, i)) THEN atoi_from(str, i + 1, 10 * acc + DigitValue(str[i]))
    ELSE acc

atoi(str) == atoi_from(str, 1, 0)

EmptyBoard ==
    [players |-> [p \in 0..1 |-> {}], pieces |-> [p \in 0..5 |-> {}],
     flags |-> [low |-> 0, turn |-> 0]]

board_from_fen_str(fen_string) ==
    LET placed == FenReadPlacement(fen_string, 1, 7, EmptyBoard)
        i1 == SkipSpace(fen_string, placed.next)
        low1 == IF CharAt(fen_string, i1) = "b" THEN BOARD_FLAGS_TURN ELSE 0
        i2 == SkipSpace(fen_string, i1 + 1)
        castling == FenReadCastling(fen_string, i2, low1)
        i3 == SkipSpace(fen_string, castling.next)
        no_ep == CharAt(fen_string, i3) = "-"
        low2 == IF no_ep THEN castling.low
                ELSE castling.low + BOARD_FLAGS_EP_PRESENT
                     + (board_pos_from_str(<<CharAt(fen_string, i3), CharAt(fen_string, i3 + 1)>>)
                        % (BOARD_FLAGS_EP_SQUARE + 1))
        i4 == IF no_ep THEN i3 + 1 ELSE i3 + 2
        i5 == SkipSpace(fen_string, SkipNonSpace(fen_string, SkipSpace(fen_string, i4)))
        turn_count == atoi(FenTurnChars(fen_string, i5, 0))
    IN  [placed.board EXCEPT !.flags = [low |-> low2, turn |-> turn_count % TurnModulus]]

board_castling_to_str(board) ==
    LET str == (IF FlagSet(board.flags.low, BOARD_FLAGS_W_CASTLE_KING) THEN <<"K">> ELSE <<>>)
               \o (IF FlagSet(board.flags.low, BOARD_FLAGS_W_CASTLE_QUEEN) THEN <<"Q">> ELSE <<>>)
               \o (IF FlagSet(board.flags.low, BOARD_FLAGS_B_CASTLE_KING) THEN <<"k">> ELSE <<>>)
               \o (IF FlagSet(board.flags.low, BOARD_FLAGS_B_CASTLE_QUEEN) THEN <<"q">> ELSE <<>>)
    IN  IF str = <<>> THEN <<"-">> ELSE str

board_ep_to_str(board) ==
    IF FlagSet(board.flags.low, BOARD_FLAGS_EP_PRESENT)
    THEN board_pos_to_str(board.flags.low % (BOARD_FLAGS_EP_SQUARE + 1))
    ELSE <<"-">>

\* the characters printf("%i") writes for n >= 0
RECURSIVE FormatInt(_)
FormatInt(n) ==
    IF n < 10 THEN <<DigitChars[n + 1]>>
    ELSE FormatInt(n \div 10) \o <<DigitChars[(n % 10) + 1]>>

\* snprintf(res, size, "%i", n): at most size - 1 characters are written
snprintf(size, n) ==
    LET full == FormatInt(n)
    IN  IF Len(full) <= size - 1 THEN full ELSE SubSeq(full, 1, size - 1)

\* one rank of the placement field (lines 406-425), files x..7
RECURSIVE FenRank(_, _, _, _)
FenRank(board, y, x, empty_counter) ==
    LET flush == IF empty_counter > 0 THEN <<DigitChars[empty_counter + 1]>> ELSE <<>>
    IN  IF x > 7 THEN flush
        ELSE LET square == board_pos_from_xy(x, y)
                 player == board_player_on_square(board, square)
                 piece == board_piece_on_square(board, square)
             IN  IF player = -1 THEN FenRank(board, y, x + 1, empty_counter + 1)
                 ELSE flush \o <<board_piece_char_from_piece_player(piece, player)>>
                      \o FenRank(board, y, x + 1, 0)

RECURSIVE FenRanks(_, _)
FenRanks(board, y) ==
    FenRank(board, y, 0, 0)
    \o (IF y > 0 THEN <<"/">> \o FenRanks(board, y - 1) ELSE <<>>)

\* the size argument of the snprintf call of board_to_fen_str
FenTurnBufSize == 4

board_to_fen_str(board) ==
    FenRanks(board, 7) \o <<" ">>
    \o (IF board_player_to_move(board) = WHITE THEN <<"w">> ELSE <<"b">>) \o <<" ">>
    \o board_castling_to_str(board) \o <<" ">>
    \o board_ep_to_str(board) \o <<" ">>
    \o <<"0", " ">>
    \o snprintf(FenTurnBufSize, board_get_full_turn_number(board))

\* the loop of board_is_checkmate / board_is_stalemate: call
\* move_gen_next_move until it returns MOVE_END
RECURSIVE move_gen_exhaust(_, _)
move_gen_exhaust(generator, board) ==
    LET r == move_gen_next_move(generator, board)
    IN  IF r.ret = MOVE_END THEN r ELSE move_gen_exhaust(r.gen, r.board)

\* each returns its answer and the board as the call leaves it
board_is_checkmate(board_to_check) ==
    LET r == move_gen_exhaust(move_gen_init(board_to_check), board_to_check)
    IN  [answer |-> move_gen_is_checkmate(r.gen), board |-> r.board]

board_is_stalemate(board_to_check) ==
    LET r == move_gen_exhaust(move_gen_init(board_to_check), board_to_check)
    IN  [answer |-> move_gen_is_stalemate(r.gen), board |-> r.board]

promote_codes == <<"k", "p", "n", "r", "b", "q">>

\* move_to_str: <src><dst><promote?>
move_to_str(move) ==
    board_pos_to_str(move_source_square(move))
    \o board_pos_to_str(move_destination_square(move))
    \o (IF move_is_promotion(move) = 1
        THEN <<promote_codes[move_promotion_piece(move) + 1]>> ELSE <<>>)

\* ------------------------------------------------------------------------
\* How a call ends: it returns a value, or a failed assert() aborts the
\* process.  The library is modelled as built with its assertions, which is
\* what the sources give unless NDEBUG is defined when they are compiled.
Returned(v) == [kind |-> "return", value |-> v]

Aborted == [kind |-> "abort", value |-> "none"]

\* move_str[i] (i counted from 0) of the C string whose characters are
\* move_str: the terminator at strlen, and `beyond`, a character the caller's
\* memory happens to hold, past it
StrAt(move_str, i, beyond) ==
    IF i < Len(move_str) THEN move_str[i + 1]
    ELSE IF i = Len(move_str) THEN NUL ELSE beyond

file_wellformed(file) ==
    \E i \in 1..8 : FileChars[i] = file \/ UpperFileChars[i] = file

rank_wellformed(rank) == \E i \in 2..9 : DigitChars[i] = rank

promote_wellformed(promote) == promote \in {"n", "r", "b", "q"}

move_str_is_wellformed(move_str) ==
    IF Len(move_str) # 4 /\ Len(move_str) # 5 THEN FALSE
    ELSE IF ~file_wellformed(move_str[1]) \/ ~rank_wellformed(move_str[2]) THEN FALSE
    ELSE IF ~file_wellformed(move_str[3]) \/ ~rank_wellformed(move_str[4]) THEN FALSE
    ELSE IF Len(move_str) = 5 /\ ~promote_wellformed(move_str[5]) THEN FALSE
    ELSE TRUE

\* one of the assertions of board_pos_from_str fails on the two characters
board_pos_from_str_aborts(str) ==
    \/ ~\E i \in 1..8 : FileChars[i] = str[1] \/ UpperFileChars[i] = str[1]
    \/ ~\E i \in 2..9 : DigitChars[i] = str[2]

move_new(src, dst, is_promote, promote_piece, board) ==
    LET on_dst == board_piece_on_square(board, dst)
        ep_target == board_get_en_passant_target(board)
        en_passant == dst = ep_target /\ board_piece_on_square(board, src) = PAWN
        capture_pos == IF en_passant THEN en_passant_target_to_pawn_pos(ep_target)
                       ELSE IF on_dst # -1 THEN dst ELSE BOARD_POS_INVALID
        capture_piece == IF en_passant THEN board_piece_on_square(board, capture_pos)
                         ELSE on_dst
        is_capture == IF en_passant \/ on_dst # -1 THEN 1 ELSE 0
        is_castle ==
            IF /\ \/ /\ src = board_pos_from_xy(4, 0)
                     /\ dst \in {board_pos_from_xy(2, 0), board_pos_from_xy(6, 0)}
                  \/ /\ src = board_pos_from_xy(4, 7)
                     /\ dst \in {board_pos_from_xy(2, 7), board_pos_from_xy(6, 7)}
               /\ board_piece_on_square(board, src) = KING
            THEN 1 ELSE 0
    IN  IF on_dst # -1 /\ board_player_on_square(board, dst) = board_player_to_move(board)
        THEN MOVE_END
        ELSE IF en_passant /\ capture_piece # PAWN THEN MOVE_END
        ELSE construct_move(board.flags, src, dst, is_promote, promote_piece,
                            is_capture, capture_piece, capture_pos, is_castle)

\* the index of promote_char in promote_codes that the loop of move_from_str
\* leaves in promote_piece, -1 when it is not among them
PromoteCodeIndex(promote_char) ==
    IF \E p \in 0..5 : promote_codes[p + 1] = promote_char
    THEN CHOOSE p \in 0..5 : promote_codes[p + 1] = promote_char
    ELSE -1

\* move_from_str on the string move_str, with `beyond` what the bytes past
\* its terminator hold
move_from_str(move_str, beyond, board) ==
    LET src_str == <<StrAt(move_str, 0, beyond), StrAt(move_str, 1, beyond)>>
        dst_str == <<StrAt(move_str, 2, beyond), StrAt(move_str, 3, beyond)>>
        promote_char == StrAt(move_str, 4, beyond)
        is_promote == IF promote_char # NUL THEN 1 ELSE 0
        promote_piece == IF promote_char # NUL THEN PromoteCodeIndex(promote_char) ELSE -1
    IN  IF promote_char # NUL /\ promote_piece = -1 THEN Returned(MOVE_END)
        ELSE IF board_pos_from_str_aborts(src_str) \/ board_pos_from_str_aborts(dst_str)
        THEN Aborted
        ELSE Returned(move_new(board_pos_from_str(src_str), board_pos_from_str(dst_str),
                               is_promote, promote_piece, board))

\* a variant: two moves are equal when their 64 bits are
moves_equal_raw(move0, move1) == IF move0 = move1 THEN 1 ELSE 0

moves_equal(move0, move1) ==
    IF move0.prev_flags # move1.prev_flags THEN 0
    ELSE IF \/ move_source_square(move0) # move_source_square(move1)
            \/ move_destination_square(move0) # move_destination_square(move1)
    THEN 0
    ELSE IF \/ move_is_promotion(move0) # move_is_promotion(move1)
            \/ /\ move_is_promotion(move0) = 1
               /\ move_promotion_piece(move0) # move_promotion_piece(move1)
    THEN 0
    ELSE IF \/ move_is_capture(move0) # move_is_capture(move1)
            \/ /\ move_is_capture(move0) = 1
               /\ \/ move_capture_piece(move0) # move_capture_piece(move1)
                  \/ move_capture_square(move0) # move_capture_square(move1)
    THEN 0
    ELSE IF move_is_castle(move0) # move_is_castle(move1) THEN 0
    ELSE 1

\* the loop of move_is_legal: the generator is asked for moves until one is
\* equal to move_to_check or MOVE_END comes
RECURSIVE MoveIsLegalScan(_, _, _)
MoveIsLegalScan(generator, board, move_to_check) ==
    LET scanned(r) ==
            IF r.ret = MOVE_END THEN [answer |-> 0, board |-> r.board]
            ELSE IF moves_equal(move_to_check, r.ret) = 1 THEN [answer |-> 1, board |-> r.board]
            ELSE MoveIsLegalScan(r.gen, r.board, move_to_check)
    IN  scanned(move_gen_next_move(generator, board))

\* the answer, and the board as the call leaves it
move_is_legal(move_to_check, board) ==
    IF move_to_check = MOVE_END THEN [answer |-> 0, board |-> board]
    ELSE MoveIsLegalScan(move_gen_init(board), board, move_to_check)

\* a variant: the answer is given without looking at done first
move_gen_is_checkmate_unchecked(generator) ==
    Returned(IF move_gen_is_checkmate(generator) THEN 1 ELSE 0)

\* move_gen_is_checkmate and move_gen_is_stalemate as calls: the check of
\* `done` with its assert(0), then the answer
move_gen_is_checkmate_call(generator) ==
    IF generator.done = 0 THEN Aborted
    ELSE Returned(IF move_gen_is_checkmate(generator) THEN 1 ELSE 0)

move_gen_is_stalemate_call(generator) ==
    IF generator.done = 0 THEN Aborted
    ELSE Returned(IF move_gen_is_stalemate(generator) THEN 1 ELSE 0)

\* the assertions board_make_move reaches before its first write (lines
\* 612-626, and 583-589 of move_gen_make_castle) fail: the board's invariants,
\* the flags the move was built under, the shape of the move
MakeShapeAsserted(board, move) ==
    LET src == move_source_square(move)
        dst == move_destination_square(move)
        player == board_player_to_move(board)
    IN  IF move_is_castle(move) = 1
        THEN /\ board_pos_to_x(dst) \in {2, 6}
             /\ board_piece_on_square(board, src) = KING
             /\ move_is_capture(move) = 0
             /\ move_is_promotion(move) = 0
             /\ board_pos_to_y(dst) = (IF player = WHITE THEN 0 ELSE 7)
        ELSE /\ board_piece_on_square(board, src) # -1
             /\ ~bitboard_check_square(board.players[1 - player], dst)
                \/ move_is_capture(move) = 1

\* a variant: the flags the move was built under are not compared
board_make_move_aborts_flags_unchecked(board, move) ==
    \/ ~board_invariants(board)
    \/ ~MakeShapeAsserted(board, move)

board_make_move_aborts(board, move) ==
    \/ ~board_invariants(board)
    \/ board.flags.low # move.prev_flags
    \/ ~MakeShapeAsserted(board, move)

\* board_make_move as a call: the value is the board it leaves
board_make_move_call(board, move) ==
    IF board_make_move_aborts(board, move) THEN Aborted
    ELSE Returned(board_make_move(board, move))

\* ------------------------------------------------------------------------
\* the positions the runs start from, as FEN strings
\* rnbqkbnr/pppppppp/8/8/8/8/PPPPPPPP/RNBQKBNR w KQkq - 0 1
\* the standard start position
FenStart ==
    <<"r", "n", "b", "q", "k", "b", "n", "r", "/", "p", "p", "p", "p", "p",
      "p", "p", "p", "/", "8", "/", "8", "/", "8", "/", "8", "/", "P", "P",
      "P", "P", "P", "P", "P", "P", "/", "R", "N", "B", "Q", "K", "B", "N",
      "R", " ", "w", " ", "K", "Q", "k", "q", " ", "-", " ", "0", " ", "1">>

\* rnbqkbnr/pppppppp/8/8/8/8/PPPPPPPP/RNBQKBNR w KQkq - 0 1000
\* the start placement after 999 full turns of Ng1-f3 Ng8-f6 Nf3-g1 Nf6-g8
FenShuffled ==
    <<"r", "n", "b", "q", "k", "b", "n", "r", "/", "p", "p", "p", "p", "p",
      "p", "p", "p", "/", "8", "/", "8", "/", "8", "/", "8", "/", "P", "P",
      "P", "P", "P", "P", "P", "P", "/", "R", "N", "B", "Q", "K", "B", "N",
      "R", " ", "w", " ", "K", "Q", "k", "q", " ", "-", " ", "0", " ", "1",
      "0", "0", "0">>

\* 8/P7/8/8/8/8/8/k6K w - - 0 1
\* promotion enumeration scenario
FenPromotion ==
    <<"8", "/", "P", "7", "/", "8", "/", "8", "/", "8", "/", "8", "/", "8",
      "/", "k", "6", "K", " ", "w", " ", "-", " ", "-", " ", "0", " ", "1">>

\* r3k2r/8/8/8/8/8/4r3/R3K2R w KQkq - 0 1
\* castling scenario with a rook on e2
FenCastleAttacked ==
    <<"r", "3", "k", "2", "r", "/", "8", "/", "8", "/", "8", "/", "8", "/",
      "8", "/", "4", "r", "3", "/", "R", "3", "K", "2", "R", " ", "w", " ",
      "K", "Q", "k", "q", " ", "-", " ", "0", " ", "1">>

\* r3k2r/8/8/8/8/5N2/8/R3K2R b KQkq - 0 30
\* both sides hold both castling rights
FenCastles ==
    <<"r", "3", "k", "2", "r", "/", "8", "/", "8", "/", "8", "/", "8", "/",
      "5", "N", "2", "/", "8", "/", "R", "3", "K", "2", "R", " ", "b", " ",
      "K", "Q", "k", "q", " ", "-", " ", "0", " ", "3", "0">>

\* 1r2k1r1/8/8/8/8/8/8/R3K2R w KQ - 0 30
\* b1 and g1 are attacked: the king may not pass to g1, the rook may pass b1
FenCastleThrough ==
    <<"1", "r", "2", "k", "1", "r", "1", "/", "8", "/", "8", "/", "8", "/",
      "8", "/", "8", "/", "8", "/", "R", "3", "K", "2", "R", " ", "w", " ",
      "K", "Q", " ", "-", " ", "0", " ", "3", "0">>

\* 4k3/3p4/8/4P3/8/8/8/4K3 b - - 0 40
\* d7d5 sets an en passant target that e5 can take
FenDoublePush ==
    <<"4", "k", "3", "/", "3", "p", "4", "/", "8", "/", "4", "P", "3", "/",
      "8", "/", "8", "/", "8", "/", "4", "K", "3", " ", "b", " ", "-", " ",
      "-", " ", "0", " ", "4", "0">>

\* 8/8/8/K2pP2r/8/8/8/7k w - d6 0 40
\* taking en passant would uncover the rook on the king
FenPinnedEnPassant ==
    <<"8", "/", "8", "/", "8", "/", "K", "2", "p", "P", "2", "r", "/", "8",
      "/", "8", "/", "8", "/", "7", "k", " ", "w", " ", "-", " ", "d", "6",
      " ", "0", " ", "4", "0">>

\* r1n1k3/1P6/8/8/8/8/8/4K3 w q - 0 40
\* promotions with and without capture, one of a rook on its home square
FenPromoteCapture ==
    <<"r", "1", "n", "1", "k", "3", "/", "1", "P", "6", "/", "8", "/", "8",
      "/", "8", "/", "8", "/", "8", "/", "4", "K", "3", " ", "w", " ", "q",
      " ", "-", " ", "0", " ", "4", "0">>

\* 7k/8/8/8/8/8/8/K7 w - - 0 60
\* the king of the player to move stands on a1
FenKingCorner ==
    <<"7", "k", "/", "8", "/", "8", "/", "8", "/", "8", "/", "8", "/", "8",
      "/", "K", "7", " ", "w", " ", "-", " ", "-", " ", "0", " ", "6", "0">>

\* 7k/5Q2/6K1/8/8/8/8/8 b - - 0 1
\* stalemate scenario
FenStalemate ==
    <<"7", "k", "/", "5", "Q", "2", "/", "6", "K", "1", "/", "8", "/", "8",
      "/", "8", "/", "8", "/", "8", " ", "b", " ", "-", " ", "-", " ", "0",
      " ", "1">>

\* R5k1/5ppp/8/8/8/8/8/6K1 b - - 0 40
\* a back rank mate
FenBackRankMate ==
    <<"R", "5", "k", "1", "/", "5", "p", "p", "p", "/", "8", "/", "8", "/",
      "8", "/", "8", "/", "8", "/", "6", "K", "1", " ", "b", " ", "-", " ",
      "-", " ", "0", " ", "4", "0">>

\* 4k3/8/8/8/8/8/8/4K3 b - - 0 65535
\* the last turn number the flags word can hold
FenLastTurn ==
    <<"4", "k", "3", "/", "8", "/", "8", "/", "8", "/", "8", "/", "8", "/",
      "8", "/", "4", "K", "3", " ", "b", " ", "-", " ", "-", " ", "0", " ",
      "6", "5", "5", "3", "5">>

SeedFens ==
    {FenStart,
     FenShuffled,
     FenPromotion,
     FenCastleAttacked,
     FenCastles,
     FenCastleThrough,
     FenDoublePush,
     FenPinnedEnPassant,
     FenPromoteCapture,
     FenKingCorner,
     FenStalemate,
     FenBackRankMate,
     FenLastTurn}

\* how many calls of one generator that return MOVE_END are followed
MaxEnds == 2

\* how many moves are played on from a seed position
MaxPly == 1

\* the move strings handed to move_from_str.  Well-formed: legal and illegal
\* moves of the positions above; malformed: too short, too long, a file, a
\* rank or a promotion letter out of range
MoveStrings ==
    {<<"e", "2", "e", "4">>, <<"E", "2", "E", "4">>, <<"e", "2", "e", "5">>,
     <<"e", "3", "e", "4">>, <<"e", "7", "e", "5">>, <<"e", "1", "e", "2">>,
     <<"a", "7", "a", "8", "q">>, <<"a", "7", "a", "8">>, <<"e", "5", "d", "6">>,
     <<"e", "1", "g", "1">>, <<"e", "2", "e", "4", "q">>, <<"g", "8", "h", "8">>,
     <<>>, <<"e", "2">>, <<"e", "2", "e">>, <<"e", "2", "e", "4", "q", "q">>,
     <<"z", "2", "e", "4">>, <<"e", "9", "e", "4">>, <<"e", "2", "e", "0">>,
     <<"e", "2", "z", "4">>, <<"e", "7", "e", "8", "k">>, <<"a", "7", "a", "8", "p">>,
     <<"e", "7", "e", "8", "x">>, <<"e", "2", "e", "4", "Q">>}

\* a game given as move strings, played from the standard start position:
\* e2e4 e7e5 d1h5 b8c6 f1c4 g8f6 h5f7
ScholarsMate ==
    << <<"e", "2", "e", "4">>, <<"e", "7", "e", "5">>, <<"d", "1", "h", "5">>,
       <<"b", "8", "c", "6">>, <<"f", "1", "c", "4">>, <<"g", "8", "f", "6">>,
       <<"h", "5", "f", "7">> >>

\* the depth up to which the leaves of the move tree are counted
PerftDepth == 4

\* what the bytes past the terminator of a move string may hold
BeyondChars == {NUL, "q", "x"}

\* ------------------------------------------------------------------------
\* the state machine: one board, one generator on it, and the caller
VARIABLES
    board,      \* struct __chess_util_board
    gen,        \* struct __chess_util_move_gen, whose board pointer is `board`
    pc,         \* "idle": no live generator; "gen": a generator is live;
                \* "applied": move_gen_make_next_move left its move on the board
    ret,        \* the value the last generator call returned
    ply,        \* moves played on from the seed position
    init_board, \* history: the board at the last move_gen_init
    before,     \* history: the board the last call other than an unmake started from
    emitted,    \* history: the moves the live generator has returned
    last_op,    \* history: the last operation
    twin,       \* a second generator, on a second board equal to `board` at
                \* move_gen_init, that is given the same calls: its struct,
                \* its board and the value its last call returned
    call,       \* the last call made beside the generator's: its argument
                \* and how it ended
    perft,      \* the move tree walk: the depth it counts at, the generators
                \* of the nodes on the path, the moves applied on the path,
                \* the leaves counted, and where the walk stands
    ends,       \* history: how many calls of the live generator returned
                \* MOVE_END
    passes      \* the passes of the generator still to be followed, worked
                \* out when the position was set up

vars == <<board, gen, pc, ret, ply, init_board, before, emitted, last_op, twin, call, perft,
          ends, passes>>

\* no walk of the move tree is under way
NoPerft == [target |-> 0, stack |-> <<>>, moves |-> <<>>, nodes |-> 0, mode |-> "none"]

\* no call beside the generator's has been made
NoCall == [arg |-> <<>>, out |-> Returned(0)]

\* the generator struct before move_gen_init ran on it; it is never read
NoGen == move_gen_init(EmptyBoard)

Init ==
    /\ board \in {board_from_fen_str(f) : f \in SeedFens}
    /\ gen = NoGen
    /\ pc = "idle"
    /\ ret = MOVE_END
    /\ ply = 0
    /\ init_board = board
    /\ before = board
    /\ emitted = <<>>
    /\ last_op = "load"
    /\ twin = [gen |-> NoGen, board |-> board, ret |-> MOVE_END]
    /\ call = NoCall
    /\ perft = NoPerft
    /\ ends = 0
    /\ passes = <<>>

MoveGenInit ==
    /\ pc = "idle"
    /\ gen' = move_gen_init(board)
    /\ pc' = "gen"
    /\ init_board' = board
    /\ before' = board
    /\ emitted' = <<>>
    /\ last_op' = "init"
    /\ twin' = [gen |-> move_gen_init(board), board |-> board, ret |-> ret]
    /\ ends' = 0
    /\ UNCHANGED <<board, ret, ply, call, perft, passes>>

NextMove ==
    /\ pc = "gen"
    /\ ends < MaxEnds
    /\ LET returned(r) ==
               /\ gen' = r.gen
               /\ board' = r.board
               /\ ret' = r.ret
               /\ emitted' = IF r.ret # MOVE_END THEN Append(emitted, r.ret) ELSE emitted
               /\ ends' = IF r.ret = MOVE_END THEN ends + 1 ELSE ends
       IN  returned(move_gen_next_move(gen, board))
    /\ before' = board
    /\ last_op' = "next_move"
    /\ twin' = move_gen_next_move(twin.gen, twin.board)
    /\ UNCHANGED <<pc, ply, init_board, call, perft, passes>>

MakeNextMove ==
    /\ pc = "gen"
    /\ ends < MaxEnds
    /\ LET returned(r) ==
               /\ gen' = r.gen
               /\ board' = r.board
               /\ ret' = r.ret
               /\ emitted' = IF r.ret # MOVE_END THEN Append(emitted, r.ret) ELSE emitted
               /\ ends' = IF r.ret = MOVE_END THEN ends + 1 ELSE ends
               /\ pc' = IF r.ret # MOVE_END THEN "applied" ELSE "gen"
       IN  returned(move_gen_make_next_move(gen, board))
    /\ before' = board
    /\ last_op' = "make_next_move"
    /\ twin' = move_gen_make_next_move(twin.gen, twin.board)
    /\ UNCHANGED <<ply, init_board, call, perft, passes>>

\* the caller undoes the move move_gen_make_next_move left applied
UnmakeMove ==
    /\ pc = "applied"
    /\ board' = board_unmake_move(board, ret)
    /\ pc' = "gen"
    /\ last_op' = "unmake"
    /\ twin' = [twin EXCEPT !.board = board_unmake_move(twin.board, twin.ret)]
    /\ UNCHANGED <<gen, ret, ply, init_board, before, emitted, call, perft, ends, passes>>

\* the caller plays the move move_gen_next_move just returned and drops
\* the generator
PlayMove ==
    /\ pc = "gen"
    /\ last_op = "next_move"
    /\ ret # MOVE_END
    /\ ply < MaxPly
    /\ board' = board_make_move(board, ret)
    /\ pc' = "idle"
    /\ ply' = ply + 1
    /\ before' = board
    /\ last_op' = "make"
    /\ UNCHANGED <<gen, ret, init_board, emitted, twin, call, perft, ends, passes>>

\* the caller drops the generator with its last move left applied
KeepMove ==
    /\ pc = "applied"
    /\ ply < MaxPly
    /\ pc' = "idle"
    /\ ply' = ply + 1
    /\ last_op' = "keep"
    /\ UNCHANGED <<board, gen, ret, init_board, before, emitted, twin, call, perft, ends, passes>>

\* the caller writes the board out as FEN and reads it back
FenRoundTrip ==
    /\ pc = "idle"
    /\ board' = board_from_fen_str(board_to_fen_str(board))
    /\ before' = board
    /\ last_op' = "fen"
    /\ UNCHANGED <<gen, pc, ret, ply, init_board, emitted, twin, call, perft, ends, passes>>

\* where the run stands after a call beside the generator's: the process is
\* gone after an abort, and a call that returned is followed no further
Ended(out) == IF out.kind = "abort" THEN "aborted" ELSE "returned"

\* the caller parses one of the move strings against the position as loaded
MoveFromStr ==
    /\ pc = "idle"
    /\ last_op = "load"
    /\ \E move_str \in MoveStrings, beyond \in BeyondChars :
           call' = [arg |-> move_str, out |-> move_from_str(move_str, beyond, board)]
    /\ pc' = Ended(call'.out)
    /\ before' = board
    /\ last_op' = "move_from_str"
    /\ UNCHANGED <<board, gen, ret, ply, init_board, emitted, twin, perft, ends, passes>>

\* the caller asks the live generator for the verdict
IsCheckmate ==
    /\ pc = "gen"
    /\ call' = [arg |-> <<>>, out |-> move_gen_is_checkmate_call(gen)]
    /\ pc' = Ended(call'.out)
    /\ before' = board
    /\ last_op' = "move_gen_is_checkmate"
    /\ UNCHANGED <<board, gen, ret, ply, init_board, emitted, twin, perft, ends, passes>>

IsStalemate ==
    /\ pc = "gen"
    /\ call' = [arg |-> <<>>, out |-> move_gen_is_stalemate_call(gen)]
    /\ pc' = Ended(call'.out)
    /\ before' = board
    /\ last_op' = "move_gen_is_stalemate"
    /\ UNCHANGED <<board, gen, ret, ply, init_board, emitted, twin, perft, ends, passes>>

\* the caller makes the first or the last move the live generator returned,
\* on the board as it stands: as the generator left it, or with the move of
\* move_gen_make_next_move still applied
MakeMove ==
    /\ pc \in {"gen", "applied"}
    /\ emitted # <<>>
    /\ \E i \in {1, Len(emitted)} :
           LET ended(out) ==
                   /\ call' = [arg |-> emitted[i], out |-> out]
                   /\ pc' = Ended(out)
                   /\ board' = IF out.kind = "abort" THEN board ELSE out.value
           IN  ended(board_make_move_call(board, emitted[i]))
    /\ before' = board
    /\ last_op' = "board_make_move"
    /\ UNCHANGED <<gen, ret, ply, init_board, emitted, twin, perft, ends, passes>>

\* the caller writes the move move_gen_next_move just returned with
\* move_to_str and parses the string against the same position
ParseEmitted ==
    /\ pc = "gen"
    /\ last_op = "next_move"
    /\ ret # MOVE_END
    /\ \E beyond \in BeyondChars :
           call' = [arg |-> move_to_str(ret),
                    out |-> move_from_str(move_to_str(ret), beyond, board)]
    /\ pc' = Ended(call'.out)
    /\ before' = board
    /\ last_op' = "parse_emitted"
    /\ UNCHANGED <<board, gen, ret, ply, init_board, emitted, twin, perft, ends, passes>>

\* the caller asks move_is_legal about the move it parsed
MoveIsLegal ==
    /\ pc = "returned"
    /\ last_op = "parse_emitted"
    /\ LET answered(r) ==
               /\ call' = [arg |-> call.out.value, out |-> Returned(r.answer)]
               /\ board' = r.board
       IN  answered(move_is_legal(call.out.value, board))
    /\ before' = board
    /\ last_op' = "move_is_legal"
    /\ UNCHANGED <<gen, pc, ret, ply, init_board, emitted, twin, perft, ends, passes>>

\* the caller plays the next move of the game from the start position: the
\* string is parsed by move_from_str and the move applied by board_make_move
PlayStr ==
    /\ pc = "idle"
    /\ ply < Len(ScholarsMate)
    /\ last_op = (IF ply = 0 THEN "load" ELSE "play_str")
    /\ ply = 0 => board = board_from_fen_str(FenStart)
    /\ LET made(move, out) ==
               /\ ret' = move
               /\ board' = (IF out.kind = "abort" THEN board ELSE out.value)
               /\ pc' = (IF out.kind = "abort" THEN "aborted" ELSE "idle")
           parsed(out) ==
               IF out.kind = "abort"
               THEN made(ret, out)
               ELSE made(out.value, board_make_move_call(board, out.value))
       IN  parsed(move_from_str(ScholarsMate[ply + 1], NUL, board))
    /\ ply' = ply + 1
    /\ before' = board
    /\ last_op' = "play_str"
    /\ UNCHANGED <<gen, init_board, emitted, twin, call, perft, ends, passes>>

Next ==
    \/ ParseEmitted
    \/ MoveIsLegal
    \/ PlayStr
    \/ MoveFromStr
    \/ IsCheckmate
    \/ IsStalemate
    \/ MakeMove
    \/ MoveGenInit
    \/ NextMove
    \/ MakeNextMove
    \/ UnmakeMove
    \/ PlayMove
    \/ KeepMove
    \/ FenRoundTrip

Spec == Init /\ [][Next]_vars

\* ------------------------------------------------------------------------
\* The walk of the legal-move tree from the standard start position that
\* counts its leaves at a depth:
\*   count(depth): move_gen_init; if depth = 1, count the moves
\*   move_gen_next_move returns before MOVE_END; otherwise, for every move
\*   move_gen_make_next_move returns, count(depth - 1) and board_unmake_move.
\* One walk is made for each depth up to PerftDepth.
PerftInit ==
    /\ board = board_from_fen_str(FenStart)
    /\ gen = NoGen
    /\ pc = "perft"
    /\ ret = MOVE_END
    /\ ply = 0
    /\ init_board = board
    /\ before = board
    /\ emitted = <<>>
    /\ last_op = "load"
    /\ twin = [gen |-> NoGen, board |-> board, ret |-> MOVE_END]
    /\ call = NoCall
    /\ \E target \in 1..PerftDepth :
           perft = [target |-> target, stack |-> <<>>, moves |-> <<>>, nodes |-> 0,
                    mode |-> "enter"]
    /\ ends = 0
    /\ passes = <<>>

\* the number of moves move_gen_next_move returns before MOVE_END
RECURSIVE CountMoves(_, _, _)
CountMoves(generator, b, n) ==
    LET returned(r) == IF r.ret = MOVE_END THEN n ELSE CountMoves(r.gen, r.board, n + 1)
    IN  returned(move_gen_next_move(generator, b))

\* a node at the depth above the leaves: its moves are counted
PerftLeaves ==
    /\ pc = "perft"
    /\ perft.mode = "enter"
    /\ Len(perft.moves) = perft.target - 1
    /\ perft' = [perft EXCEPT !.nodes = @ + CountMoves(move_gen_init(board), board, 0),
                              !.mode = "leave"]
    /\ UNCHANGED <<board, gen, pc, ret, ply, init_board, before, emitted, last_op, twin, call, ends, passes>>

\* a node higher up: a generator is set up for it
PerftEnter ==
    /\ pc = "perft"
    /\ perft.mode = "enter"
    /\ Len(perft.moves) < perft.target - 1
    /\ perft' = [perft EXCEPT !.stack = Append(@, move_gen_init(board)), !.mode = "loop"]
    /\ UNCHANGED <<board, gen, pc, ret, ply, init_board, before, emitted, last_op, twin, call, ends, passes>>

\* the generator of the node on top makes its next move, or ends
PerftStep ==
    /\ pc = "perft"
    /\ perft.mode = "loop"
    /\ LET top == Len(perft.stack)
           returned(r) ==
               /\ board' = r.board
               /\ perft' = IF r.ret # MOVE_END
                           THEN [perft EXCEPT !.stack[top] = r.gen,
                                              !.moves = Append(@, r.ret),
                                              !.mode = "enter"]
                           ELSE [perft EXCEPT !.stack = SubSeq(@, 1, top - 1),
                                              !.mode = "leave"]
       IN  returned(move_gen_make_next_move(perft.stack[top], board))
    /\ UNCHANGED <<gen, pc, ret, ply, init_board, before, emitted, last_op, twin, call, ends, passes>>

\* back from the subtree of a move: the move is unmade
PerftUnmake ==
    /\ pc = "perft"
    /\ perft.mode = "leave"
    /\ perft.moves # <<>>
    /\ LET last == Len(perft.moves)
       IN  /\ board' = board_unmake_move(board, perft.moves[last])
           /\ perft' = [perft EXCEPT !.moves = SubSeq(@, 1, last - 1), !.mode = "loop"]
    /\ UNCHANGED <<gen, pc, ret, ply, init_board, before, emitted, last_op, twin, call, ends, passes>>

\* back at the root: the walk is over
PerftDone ==
    /\ pc = "perft"
    /\ perft.mode = "leave"
    /\ perft.moves = <<>>
    /\ perft' = [perft EXCEPT !.mode = "done"]
    /\ UNCHANGED <<board, gen, pc, ret, ply, init_board, before, emitted, last_op, twin, call, ends, passes>>

PerftNext ==
    \/ PerftLeaves
    \/ PerftEnter
    \/ PerftStep
    \/ PerftUnmake
    \/ PerftDone

PerftSpec == PerftInit /\ [][PerftNext]_vars

\* ------------------------------------------------------------------------
\* pawn_move_lookup on its own: one pawn of the player to move, the squares
\* before it filled in every way, the rest of the board empty or full, and
\* an en passant target on a square beside the one ahead or none
PawnSquares == {sq \in Squares : board_pos_to_y(sq) \in 1..6}

\* the squares whose bits the lookup reads: forward_shift .. forward_shift + 2
\* and double_forward_shift
LookupAhead(sq, c) ==
    LET one == IF c = WHITE THEN sq + 8 ELSE sq - 8
    IN  {one - 1, one, one + 1, 2 * one - sq} \cap Squares

LookupTargets(sq, c) ==
    LET one == IF c = WHITE THEN sq + 8 ELSE sq - 8
    IN  {-1} \cup ({one - 1, one + 1} \cap Squares)

LookupBoard(c, sq, blockers, target) ==
    [players |-> [p \in 0..1 |-> IF p = c THEN {sq} ELSE blockers],
     pieces |-> [k \in 0..5 |-> IF k = PAWN THEN {sq} ELSE IF k = ROOK THEN blockers ELSE {}],
     flags |-> [low |-> (IF c = BLACK THEN BOARD_FLAGS_TURN ELSE 0)
                        + (IF target = -1 THEN 0 ELSE BOARD_FLAGS_EP_PRESENT + target),
                turn |-> 1]]

LookupInit ==
    /\ \E c \in {WHITE, BLACK}, sq \in PawnSquares, full \in BOOLEAN :
           \E near \in SUBSET LookupAhead(sq, c) :
               \E target \in LookupTargets(sq, c) \ near :
                   board = LookupBoard(c, sq,
                               near \cup (IF full THEN Squares \ (LookupAhead(sq, c) \cup {sq, target})
                                          ELSE {}),
                               target)
    /\ gen = NoGen
    /\ pc = "lookup"
    /\ ret = MOVE_END
    /\ ply = 0
    /\ init_board = board
    /\ before = board
    /\ emitted = <<>>
    /\ last_op = "load"
    /\ twin = [gen |-> NoGen, board |-> board, ret |-> MOVE_END]
    /\ call = NoCall
    /\ perft = NoPerft
    /\ ends = 0
    /\ passes = <<>>

\* pawn_move_lookup(board_occupancy_for_pawns_lookups(board), square, player)
\* for the pawn of the position, as move_gen_reg_moves_mask calls it; the
\* result is any the lookup can give
PawnLookup ==
    /\ pc = "lookup"
    /\ LET player == board_player_to_move(board)
           looked(occupancy, square) ==
               \E moves \in pawn_move_lookup_outcomes(occupancy, square, player) :
                   call' = [arg |-> <<occupancy, square, player>>, out |-> Returned(moves)]
       IN  looked(board_occupancy_for_pawns_lookups(board),
                  bitboard_scan_lsb(board.players[player]))
    /\ pc' = "returned"
    /\ last_op' = "pawn_move_lookup"
    /\ UNCHANGED <<board, gen, ret, ply, init_board, before, emitted, twin, perft, ends, passes>>

LookupNext == PawnLookup

LookupSpec == LookupInit /\ [][LookupNext]_vars

\* ------------------------------------------------------------------------
\* move_gen_next_move followed pass by pass: every step is one run of the
\* body of move_gen_next, the ones that end in a call to itself included.
\* call.arg collects the moves move_gen_next_from_cur_moves builds, legal or
\* not; emitted collects the moves returned.

\* 8/KP5r/8/8/8/8/8/7k w - - 0 1
\* the pawn may step to b8 but is pinned to the king by the rook
FenPinnedPromotion ==
    <<"8", "/", "K", "P", "5", "r", "/", "8", "/", "8", "/", "8", "/", "8",
      "/", "8", "/", "7", "k", " ", "w", " ", "-", " ", "-", " ", "0", " ",
      "1">>

PassFens == SeedFens \cup {FenPinnedPromotion}

PassInit ==
    /\ board \in {board_from_fen_str(f) : f \in PassFens}
    /\ gen = move_gen_init(board)
    /\ pc = "pass"
    /\ ret = MOVE_END
    /\ ply = 0
    /\ init_board = board
    /\ before = board
    /\ emitted = <<>>
    /\ last_op = "init"
    /\ twin = [gen |-> NoGen, board |-> board, ret |-> MOVE_END]
    /\ call = NoCall
    /\ perft = NoPerft
    /\ ends = 0
    /\ passes = <<>>

Pass ==
    /\ pc = "pass"
    /\ gen.done = 0
    /\ LET passed(r) ==
               /\ gen' = r.gen
               /\ board' = r.board
               /\ ret' = r.ret
               /\ emitted' = IF r.ret # MOVE_END THEN Append(emitted, r.ret) ELSE emitted
       IN  passed(move_gen_next_body(gen, board, 1))
    /\ call' = IF gen.cur_mode = MOVE_GEN_MODE_NORMAL /\ gen.cur_moves # {}
               THEN [call EXCEPT !.arg =
                        Append(@, move_gen_next_from_cur_moves(gen, board).move)]
               ELSE call
    /\ before' = board
    /\ last_op' = "pass"
    /\ UNCHANGED <<pc, ply, init_board, twin, perft, ends, passes>>

PassNext == Pass

PassSpec == PassInit /\ [][PassNext]_vars

\* The same passes for the question whether they come to an end.  The passes
\* from the position are worked out when it is set up, up to 2^PassBits of
\* them, and then followed one at a time; were the generator not done after
\* the last of them, no further pass would be followed.
PassBits == 7

\* the outcomes of up to 2^k passes in a row from the outcome `start`, the
\* last one first to be found with done set
RECURSIVE PassRun(_, _)
PassRun(start, k) ==
    IF start.gen.done # 0 THEN <<>>
    ELSE IF k = 0 THEN <<move_gen_next_body(start.gen, start.board, 1)>>
    ELSE LET rest(first) ==
                 IF first = <<>> THEN <<>>
                 ELSE first \o PassRun(first[Len(first)], k - 1)
         IN  rest(PassRun(start, k - 1))

\* the move a pass builds from the generator it starts with, if it builds one
PassBuilt(generator, b) ==
    IF generator.cur_mode = MOVE_GEN_MODE_NORMAL /\ generator.cur_moves # {}
    THEN <<move_gen_next_from_cur_moves(generator, b).move>>
    ELSE <<>>

\* each pass of a run with the move it built
PassBuiltAll(start, run) ==
    [i \in 1..Len(run) |->
        LET from(at) == [built |-> PassBuilt(at.gen, at.board), next |-> run[i]]
        IN  from(IF i = 1 THEN start ELSE run[i - 1])]

PassLiveInit ==
    /\ board \in {board_from_fen_str(f) : f \in PassFens}
    /\ gen = move_gen_init(board)
    /\ pc = "pass"
    /\ ret = MOVE_END
    /\ ply = 0
    /\ init_board = board
    /\ before = board
    /\ emitted = <<>>
    /\ last_op = "init"
    /\ twin = [gen |-> NoGen, board |-> board, ret |-> MOVE_END]
    /\ call = NoCall
    /\ perft = NoPerft
    /\ ends = 0
    /\ LET start == [gen |-> gen, board |-> board]
           followed(run) == passes = PassBuiltAll(start, run)
       IN  followed(PassRun(start, PassBits))

\* one pass, as Pass, taken from the passes worked out
PassOn ==
    /\ pc = "pass"
    /\ gen.done = 0
    /\ passes # <<>>
    /\ gen' = Head(passes).next.gen
    /\ board' = Head(passes).next.board
    /\ ret' = Head(passes).next.ret
    /\ emitted' = IF Head(passes).next.ret # MOVE_END
                  THEN Append(emitted, Head(passes).next.ret)
                  ELSE emitted
    /\ call' = [call EXCEPT !.arg = @ \o Head(passes).built]
    /\ passes' = Tail(passes)
    /\ before' = board
    /\ last_op' = "pass"
    /\ UNCHANGED <<pc, ply, init_board, twin, perft, ends>>

PassOnNext == PassOn

\* the code is single-threaded and runs each call to its return, and the
\* caller calls until MOVE_END comes: a pass that can be made is made
PassLiveSpec == PassLiveInit /\ [][PassOnNext]_vars /\ WF_vars(PassOnNext)

\* ------------------------------------------------------------------------
\* the eight one-step shifts on their own: a bitboard of at most MaxBits
\* squares, a whole rank, a whole file, or the whole board, is handed to one
\* of the shifts; call.arg holds the bitboard, call.out the bitboard returned
MaxBits == 2

ShiftBoards ==
    {{s[i] : i \in 1..MaxBits} : s \in [1..MaxBits -> Squares]}
        \cup {{sq \in Squares : sq \div 8 = y} : y \in 0..7}
        \cup {{sq \in Squares : sq % 8 = x} : x \in 0..7}
        \cup {{}, Squares}

ShiftInit ==
    /\ \E bb \in ShiftBoards : call = [arg |-> <<bb>>, out |-> Returned({})]
    /\ board = EmptyBoard
    /\ gen = NoGen
    /\ pc = "shift"
    /\ ret = MOVE_END
    /\ ply = 0
    /\ init_board = board
    /\ before = board
    /\ emitted = <<>>
    /\ last_op = "load"
    /\ twin = [gen |-> NoGen, board |-> board, ret |-> MOVE_END]
    /\ perft = NoPerft
    /\ ends = 0
    /\ passes = <<>>

\* the caller's bitboard went through one shift
Shifted(name, out) ==
    /\ pc = "shift"
    /\ call' = [call EXCEPT !.out = Returned(out)]
    /\ pc' = "returned"
    /\ last_op' = name
    /\ UNCHANGED <<board, gen, ret, ply, init_board, before, emitted, twin, perft, ends, passes>>

ShiftN == Shifted("bitboard_shift_n", bitboard_shift_n(call.arg[1]))

ShiftS == Shifted("bitboard_shift_s", bitboard_shift_s(call.arg[1]))

ShiftW == Shifted("bitboard_shift_w", bitboard_shift_w(call.arg[1]))

ShiftE == Shifted("bitboard_shift_e", bitboard_shift_e(call.arg[1]))

ShiftNW == Shifted("bitboard_shift_nw", bitboard_shift_nw(call.arg[1]))

ShiftNE == Shifted("bitboard_shift_ne", bitboard_shift_ne(call.arg[1]))

ShiftSW == Shifted("bitboard_shift_sw", bitboard_shift_sw(call.arg[1]))

ShiftSE == Shifted("bitboard_shift_se", bitboard_shift_se(call.arg[1]))

ShiftNext ==
    \/ ShiftN
    \/ ShiftS
    \/ ShiftW
    \/ ShiftE
    \/ ShiftNW
    \/ ShiftNE
    \/ ShiftSW
    \/ ShiftSE

ShiftSpec == ShiftInit /\ [][ShiftNext]_vars

\* ------------------------------------------------------------------------
\* The rules of chess, stated from the geometry of the board and not from
\* the tables of the code: what the claims measure the generator against.
Abs(n) == IF n < 0 THEN -n ELSE n

Sign(n) == IF n < 0 THEN -1 ELSE IF n > 0 THEN 1 ELSE 0

RefOccupied(b) == b.players[WHITE] \cup b.players[BLACK]

\* the kind of the piece on an occupied square
RefKind(b, sq) == CHOOSE k \in 0..5 : sq \in b.pieces[k]

\* the squares strictly between two squares of one rank, file or diagonal
RefBetween(from, to) ==
    LET dx == (to % 8) - (from % 8)
        dy == (to \div 8) - (from \div 8)
        n == IF Abs(dx) > Abs(dy) THEN Abs(dx) ELSE Abs(dy)
    IN  {from + i * (Sign(dx) + 8 * Sign(dy)) : i \in 1..(n - 1)}

\* a piece of kind k and colour c standing on `from` attacks `to`
RefAttacks(occ, k, c, from, to) ==
    LET dx == (to % 8) - (from % 8)
        dy == (to \div 8) - (from \div 8)
        straight == (dx = 0) # (dy = 0)
        diagonal == Abs(dx) = Abs(dy) /\ dx # 0
        clear == RefBetween(from, to) \cap occ = {}
    IN  CASE k = KING -> from # to /\ Abs(dx) <= 1 /\ Abs(dy) <= 1
          [] k = KNIGHT -> {Abs(dx), Abs(dy)} = {1, 2}
          [] k = PAWN -> Abs(dx) = 1 /\ dy = (IF c = WHITE THEN 1 ELSE -1)
          [] k = ROOK -> straight /\ clear
          [] k = BISHOP -> diagonal /\ clear
          [] k = QUEEN -> (straight \/ diagonal) /\ clear

\* the squares from which a piece of colour c attacks sq
RefAttackers(b, sq, c) ==
    {from \in b.players[c] : RefAttacks(RefOccupied(b), RefKind(b, from), c, from, sq)}

RefKingSquare(b, c) == CHOOSE sq \in b.pieces[KING] \cap b.players[c] : TRUE

RefInCheck(b, c) == RefAttackers(b, RefKingSquare(b, c), 1 - c) # {}

RefToMove(b) == IF (b.flags.low \div 128) % 2 = 1 THEN BLACK ELSE WHITE

RefEpTarget(b) == IF (b.flags.low \div 64) % 2 = 1 THEN b.flags.low % 64 ELSE -1

\* the piece placement after the piece on src went to dst, taking what stood
\* on cap (cap = -1: nothing taken) and becoming kind `becomes`
RefPlace(b, src, dst, cap, becomes) ==
    LET c == IF src \in b.players[WHITE] THEN WHITE ELSE BLACK
    IN  [players |-> [p \in 0..1 |->
                        IF p = c THEN (b.players[p] \ {src}) \cup {dst}
                        ELSE b.players[p] \ {cap}],
         pieces |-> [k \in 0..5 |->
                        ((b.pieces[k] \ {src, cap}) \ {dst})
                        \cup (IF k = becomes THEN {dst} ELSE {})],
         flags |-> b.flags]

\* the destinations the piece on src may move to by the rules of movement,
\* own king's safety aside, castling aside
RefDestinations(b, src) ==
    LET c == RefToMove(b)
        k == RefKind(b, src)
        occ == RefOccupied(b)
        dir == IF c = WHITE THEN 8 ELSE -8
        home == IF c = WHITE THEN 1 ELSE 6
    IN  IF k = PAWN
        THEN {dst \in Squares :
                \/ dst = src + dir /\ dst \notin occ
                \/ /\ dst = src + 2 * dir
                   /\ src \div 8 = home
                   /\ src + dir \notin occ
                   /\ dst \notin occ
                \/ /\ RefAttacks(occ, PAWN, c, src, dst)
                   /\ (dst \in b.players[1 - c] \/ dst = RefEpTarget(b))}
        ELSE {dst \in Squares \ b.players[c] : RefAttacks(occ, k, c, src, dst)}

\* the legal moves of the player to move that are not castles, as
\* <<source, destination, promotion kind or -1>>: the brute-force filter
RefLegalRegular(b) ==
    LET c == RefToMove(b)
        last == IF c = WHITE THEN 7 ELSE 0
    IN  UNION {UNION {
            LET k == RefKind(b, src)
                cap == IF k = PAWN /\ dst = RefEpTarget(b)
                       THEN (IF c = WHITE THEN dst - 8 ELSE dst + 8)
                       ELSE IF dst \in b.players[1 - c] THEN dst ELSE -1
                promos == IF k = PAWN /\ dst \div 8 = last
                          THEN {KNIGHT, BISHOP, ROOK, QUEEN} ELSE {-1}
            IN  {<<src, dst, pr>> : pr \in
                    {q \in promos :
                        ~RefInCheck(RefPlace(b, src, dst, cap, IF q = -1 THEN k ELSE q), c)}}
            : dst \in RefDestinations(b, src)}
        : src \in b.players[c]}

\* castling by the rules: the right is held, the squares between king and
\* rook are empty, and the king's square, the square it crosses and the
\* square it lands on are not attacked
RefCanCastle(b, c, side) ==
    LET y == IF c = WHITE THEN 0 ELSE 7
        king == 4 + 8 * y
        rook == (IF side = KING THEN 7 ELSE 0) + 8 * y
        step == IF side = KING THEN 1 ELSE -1
        right == IF c = WHITE THEN (IF side = KING THEN 256 ELSE 512)
                 ELSE (IF side = KING THEN 1024 ELSE 2048)
    IN  /\ (b.flags.low \div right) % 2 = 1
        /\ RefBetween(king, rook) \cap RefOccupied(b) = {}
        /\ \A i \in 0..2 : RefAttackers(b, king + i * step, 1 - c) = {}

RefLegalCastles(b) ==
    LET c == RefToMove(b)
        king == IF c = WHITE THEN 4 ELSE 60
    IN  (IF RefCanCastle(b, c, KING) THEN {<<king, king + 2, -1>>} ELSE {})
        \cup (IF RefCanCastle(b, c, QUEEN) THEN {<<king, king - 2, -1>>} ELSE {})

RefLegalMoves(b) == RefLegalRegular(b) \cup RefLegalCastles(b)

\* a move of the generator as <<source, destination, promotion kind or -1>>
MoveKey(m) == <<move_source_square(m), move_destination_square(m), move_promotion_piece(m)>>

EmittedKeys == {MoveKey(emitted[i]) : i \in 1..Len(emitted)}

\* the live generator has returned MOVE_END
Exhausted == pc = "gen" /\ gen.done # 0

\* ------------------------------------------------------------------------
\* the claims

\* C1: board_unmake_move after board_make_move of a move the generator
\* emitted gives back the position the move was made on: players, pieces
\* and the whole flags word
C1_MakeUnmakeRoundTrip == last_op = "unmake" => board = before

\* an en passant capture has been made and unmade
C1_Witness ==
    /\ last_op = "unmake"
    /\ ret.is_capture = 1
    /\ ret.capture_square # ret.dst

\* C2: after every make and unmake the two colour occupancies are disjoint,
\* the six piece-kind occupancies are pairwise disjoint and each colour has
\* exactly one king
C2_PositionInvariants ==
    /\ board.players[WHITE] \cap board.players[BLACK] = {}
    /\ \A i, j \in 0..5 : i # j => board.pieces[i] \cap board.pieces[j] = {}
    /\ \A c \in {WHITE, BLACK} : Cardinality(board.players[c] \cap board.pieces[KING]) = 1

\* a capture by a piece of another kind than the one it takes has been made
C2_Witness ==
    /\ pc = "applied"
    /\ ret.is_capture = 1
    /\ ret.is_promote = 0
    /\ ret.capture_piece \notin {7, RefKind(board, ret.dst)}

\* C3: every move the generator returns, made on the position the generator
\* was initialised with, leaves the mover's king not attacked by the
\* opponent, castles included
C3_EmittedMovesLegal ==
    /\ pc = "applied" => ~RefInCheck(board, 1 - RefToMove(board))
    /\ (pc = "gen" /\ last_op = "next_move" /\ ret # MOVE_END) =>
          ~RefInCheck(board_make_move(init_board, ret), RefToMove(init_board))

\* a castle has been returned and left applied
C3_Witness == pc = "applied" /\ ret.is_castle = 1

\* C4: a generator run to MOVE_END on a position whose player not to move
\* is not in check emits every legal move of the player to move exactly
\* once and nothing else
C4_GeneratorComplete ==
    (Exhausted /\ ~RefInCheck(init_board, 1 - RefToMove(init_board))) =>
        /\ EmittedKeys = RefLegalMoves(init_board)
        /\ Len(emitted) = Cardinality(EmittedKeys)

\* C5: after MOVE_END move_gen_is_checkmate is true exactly when the player
\* to move is in check with no legal move, move_gen_is_stalemate exactly
\* when he is not in check with no legal move; board_is_checkmate and
\* board_is_stalemate answer the same and leave the board unchanged
C5_TerminalStates ==
    Exhausted =>
        LET mover == RefToMove(init_board)
            none == RefLegalMoves(init_board) = {}
            mate == board_is_checkmate(init_board)
            stale == board_is_stalemate(init_board)
        IN  /\ move_gen_is_checkmate(gen) <=> (none /\ RefInCheck(init_board, mover))
            /\ move_gen_is_stalemate(gen) <=> (none /\ ~RefInCheck(init_board, mover))
            /\ mate.answer = move_gen_is_checkmate(gen)
            /\ stale.answer = move_gen_is_stalemate(gen)
            /\ mate.board = init_board
            /\ stale.board = init_board

\* <<0, kind of the moving piece, source, destination>> of a regular move,
\* <<1, 0, 0, 0>> of the kingside and <<1, 1, 0, 0>> of the queenside castle
OrderKey(m) ==
    IF m.is_castle = 1 THEN <<1, IF m.dst % 8 = 6 THEN 0 ELSE 1, 0, 0>>
    ELSE <<0, RefKind(init_board, m.src), m.src, m.dst>>

\* lexicographic order on keys of length 4
KeyLeq(a, b) ==
    \/ a[1] < b[1]
    \/ a[1] = b[1] /\ a[2] < b[2]
    \/ a[1] = b[1] /\ a[2] = b[2] /\ a[3] < b[3]
    \/ a[1] = b[1] /\ a[2] = b[2] /\ a[3] = b[3] /\ a[4] <= b[4]

\* C6: the moves of one run come out sorted by kind of the moving piece,
\* then source square, then destination square, all ascending, and after
\* them the kingside castle and then the queenside castle
C6_EmissionOrder ==
    pc \in {"gen", "applied"} =>
        \A i \in 1..(Len(emitted) - 1) :
            /\ KeyLeq(OrderKey(emitted[i]), OrderKey(emitted[i + 1]))
            /\ emitted[i].is_castle = 1 => OrderKey(emitted[i]) # OrderKey(emitted[i + 1])

\* a run has ended that returned moves of two kinds of piece, two moves of
\* one piece, and both castles
C6_Witness ==
    /\ Exhausted
    /\ \E i, j \in 1..Len(emitted) :
          /\ emitted[i].is_castle = 1 /\ emitted[j].is_castle = 1 /\ i < j
    /\ \E i, j \in 1..Len(emitted) :
          /\ emitted[i].is_castle = 0 /\ emitted[j].is_castle = 0
          /\ emitted[i].src = emitted[j].src /\ emitted[i].dst # emitted[j].dst
    /\ \E i, j \in 1..Len(emitted) :
          /\ emitted[i].is_castle = 0 /\ emitted[j].is_castle = 0
          /\ RefKind(init_board, emitted[i].src) # RefKind(init_board, emitted[j].src)

\* the promotions to one destination come out in the given order of kinds,
\* one after the other
PromotionsInOrder(order) ==
    \A i \in 1..Len(emitted) :
        emitted[i].is_promote = 1 =>
            LET pos == CHOOSE n \in 1..4 : order[n] = emitted[i].promote_piece
                same(j) == /\ emitted[j].is_promote = 1
                           /\ emitted[j].src = emitted[i].src
                           /\ emitted[j].dst = emitted[i].dst
            IN  /\ emitted[i].promote_piece \in {order[n] : n \in 1..4}
                /\ pos > 1 => /\ i > 1
                              /\ same(i - 1)
                              /\ emitted[i - 1].promote_piece = order[pos - 1]
                /\ (pos < 4 /\ Exhausted) =>
                      /\ i < Len(emitted)
                      /\ same(i + 1)
                      /\ emitted[i + 1].promote_piece = order[pos + 1]

\* the strings of the moves the pawn on a7 was given
PawnA7Strings ==
    LET idx == {i \in 1..Len(emitted) : emitted[i].src = 48}
        RECURSIVE strs(_)
        strs(i) == IF i > Len(emitted) THEN <<>>
                   ELSE (IF i \in idx THEN <<move_to_str(emitted[i])>> ELSE <<>>) \o strs(i + 1)
    IN  strs(1)

FromPromotionFen == Exhausted /\ init_board = board_from_fen_str(FenPromotion)

CastleEmitted(side) ==
    \E i \in 1..Len(emitted) :
        /\ emitted[i].is_castle = 1
        /\ emitted[i].dst % 8 = (IF side = KING THEN 6 ELSE 2)

\* C8: the castle of the player to move to a side is emitted exactly when
\* the right is set, the squares between king and rook are empty and none
\* of the king's square and the two squares toward the rook is attacked;
\* it has the castle flag, the king's home as source, and a destination two
\* files toward the rook
C8_CastleExactly ==
    /\ Exhausted =>
          \A side \in {KING, QUEEN} :
              CastleEmitted(side) <=> RefCanCastle(init_board, RefToMove(init_board), side)
    /\ pc \in {"gen", "applied"} =>
          \A i \in 1..Len(emitted) :
              LET home == IF RefToMove(init_board) = WHITE THEN 4 ELSE 60
                  m == emitted[i]
              IN  /\ m.is_castle = 1 => m.src = home /\ m.dst \in {home + 2, home - 2}
                  /\ (m.src = home /\ m.dst \in {home + 2, home - 2}
                      /\ home \in init_board.pieces[KING]) => m.is_castle = 1

\* a run has ended that returned one castle and withheld the other although
\* its right is set and the way to the rook is empty
C8_Witness ==
    /\ Exhausted
    /\ \E side \in {KING, QUEEN} :
          /\ CastleEmitted(side)
          /\ ~CastleEmitted(KING + QUEEN - side)
          /\ board_can_castle(init_board, RefToMove(init_board), KING + QUEEN - side)
          /\ ~CastleBlocked(gen, IF RefToMove(init_board) = WHITE THEN 0 ELSE 7,
                            KING + QUEEN - side)

FromCastleAttackedFen == Exhausted /\ init_board = board_from_fen_str(FenCastleAttacked)

EmittedStrings == {move_to_str(emitted[i]) : i \in 1..Len(emitted)}

\* C9 as claimed: from r3k2r/8/8/8/8/8/4r3/R3K2R w KQkq - 0 1 the queenside
\* castle e1c1 is emitted and the kingside castle e1g1 is not
C9_CastleScenarioClaimed ==
    FromCastleAttackedFen =>
        /\ <<"e", "1", "c", "1">> \in EmittedStrings
        /\ <<"e", "1", "g", "1">> \notin EmittedStrings

\* C9 amended: from r3k2r/8/8/8/8/8/4r3/R3K2R w KQkq - 0 1 neither castle is
\* emitted: the rook on e2 attacks the king's own square e1
C9_CastleScenario ==
    FromCastleAttackedFen =>
        /\ <<"e", "1", "c", "1">> \notin EmittedStrings
        /\ <<"e", "1", "g", "1">> \notin EmittedStrings
        /\ RefAttackers(init_board, 4, BLACK) = {12}

\* the run from the castling scenario has ended and returned moves
C9_Witness == FromCastleAttackedFen /\ Len(emitted) > 0

\* C10: reading back the FEN string written for a position gives the
\* position: players, pieces and the flags word
C10_FenRoundTrip == last_op = "fen" => board = before

\* the pawn lookups the calls so far have made: the generator's, for the
\* pawns of the player to move, and board_player_in_check's, from the square
\* of the king of the player who moves
PawnLookupsMade ==
    LET mover == RefToMove(init_board)
    IN  {<<gen.occupancy_for_pawns, sq, mover>> :
            sq \in init_board.pieces[PAWN] \cap init_board.players[mover]}
        \cup {<<board_occupancy_for_pawns_lookups(board), RefKingSquare(board, mover), mover>>}

C12_NextMoveRestoresBoard == last_op = "next_move" => board = init_board

\* move_gen_next_move has returned MOVE_END for a checkmated player: the
\* calls have made and unmade every candidate move of his pieces, and the
\* first call rejected at least one before it returned
C12_Witness ==
    /\ last_op = "next_move"
    /\ ret = MOVE_END
    /\ gen.done = MOVE_DONE_CHECKMATE
    /\ \E sq \in init_board.players[RefToMove(init_board)] :
          move_gen_reg_moves_mask(gen.occupancy_for_sliders, gen.occupancy_for_pawns,
                                  board_piece_on_square(init_board, sq),
                                  RefToMove(init_board), sq)
          \cap gen.final_moves_mask # {}

\* C13: when move_gen_make_next_move returns a move other than MOVE_END the
\* board is board_make_move of that move on the position at move_gen_init,
\* and when it returns MOVE_END the board is that position; the caller has
\* unmade the move returned before
C13_MakeNextMoveApplies ==
    last_op = "make_next_move" =>
        board = IF ret # MOVE_END THEN board_make_move(init_board, ret) ELSE init_board

\* move_gen_make_next_move has returned the queenside castle, after the
\* caller unmade the kingside castle and every regular move before it
C13_Witness ==
    /\ last_op = "make_next_move"
    /\ ret # MOVE_END
    /\ ret.is_castle = 1
    /\ Len(emitted) > 2
    /\ emitted[Len(emitted) - 1].is_castle = 1
    /\ board # init_board

\* ------------------------------------------------------------------------
\* C14: move_from_str returns MOVE_END for every move string that
\* move_str_is_wellformed rejects.  The code does not: it never calls
\* move_str_is_wellformed, takes k and p for promotion letters, reads no
\* further than the fifth character, and hands a bad file or rank to the
\* assertions of board_pos_from_str.
C14_MalformedGivesMoveEnd ==
    last_op = "move_from_str" /\ ~move_str_is_wellformed(call.arg)
        => call.out.kind = "return" /\ call.out.value = MOVE_END

\* the malformed strings for which the call did end with MOVE_END
C14_SomeMalformedRejected ==
    /\ last_op = "move_from_str"
    /\ ~move_str_is_wellformed(call.arg)
    /\ call.out = Returned(MOVE_END)

\* the move a well-formed string names, as <<source, destination, promotion
\* kind or -1>>
StrKey(move_str) ==
    <<board_pos_from_str(<<move_str[1], move_str[2]>>),
      board_pos_from_str(<<move_str[3], move_str[4]>>),
      IF Len(move_str) = 5 THEN PromoteCodeIndex(move_str[5]) ELSE -1>>

\* C15: move_from_str returns MOVE_END for every well-formed move string
\* that names a move which is not legal in the position.  The code does not:
\* move_new refuses only a destination that holds a piece of the mover.
C15_IllegalGivesMoveEnd ==
    /\ last_op = "move_from_str"
    /\ move_str_is_wellformed(call.arg)
    /\ StrKey(call.arg) \notin RefLegalMoves(board)
    => call.out.kind = "return" /\ call.out.value = MOVE_END

\* the one kind of illegal move the call does refuse
C15_OwnPieceRejected ==
    /\ last_op = "move_from_str"
    /\ move_str_is_wellformed(call.arg)
    /\ StrKey(call.arg) \notin RefLegalMoves(board)
    /\ call.out = Returned(MOVE_END)

\* C16: move_gen_is_checkmate and move_gen_is_stalemate, called on a
\* generator that has not yet returned MOVE_END (done = 0), abort and return
\* no answer; called on one that has, they return an answer and do not abort.
C16_VerdictOnlyAfterEnd ==
    last_op \in {"move_gen_is_checkmate", "move_gen_is_stalemate"} =>
        IF gen.done = 0
        THEN call.out = Aborted /\ pc = "aborted"
        ELSE call.out.kind = "return" /\ call.out.value \in {0, 1} /\ pc = "returned"

\* the verdict is asked for after the generator has returned some of its
\* moves, but not MOVE_END
C16_Witness ==
    /\ last_op = "move_gen_is_checkmate"
    /\ gen.done = 0
    /\ Len(emitted) > 1
    /\ ret # MOVE_END
    /\ pc = "aborted"

\* C17: board_make_move, given a move whose prev_flags differ from the low 16
\* bits of the board's flags, aborts with players, pieces and flags as they
\* were.
C17_StaleMoveAborts ==
    last_op = "board_make_move" /\ call.arg.prev_flags # before.flags.low =>
        call.out = Aborted /\ pc = "aborted" /\ board = before

\* a move that is stale in nothing but the flags: its piece still stands on
\* the source square of the board it is made on
C17_Witness ==
    /\ last_op = "board_make_move"
    /\ call.arg.prev_flags # before.flags.low
    /\ MakeShapeAsserted(before, call.arg)
    /\ board_invariants(before)
    /\ pc = "aborted"
    /\ board = before

\* the boards of a state: the caller's, and the twin's
Boards == {board, twin.board}

\* C18: in every position reached by legal moves, if the en passant present
\* bit is set then the target square is on rank 6 when White is to move, on
\* rank 3 when Black is to move, and no piece of either colour stands on it.
C18_EnPassantTarget ==
    \A b \in Boards :
        (b.flags.low \div 64) % 2 = 1 =>
            LET target == b.flags.low % 64
            IN  /\ target \div 8 = (IF RefToMove(b) = WHITE THEN 5 ELSE 2)
                /\ target \notin b.players[WHITE] \cup b.players[BLACK]

\* a double push has just been made from the start position
C18_Witness ==
    /\ last_op \in {"make", "make_next_move", "keep"}
    /\ ret # MOVE_END
    /\ ret.prev_flags = 3840
    /\ ret.dst - ret.src = 16
    /\ (board.flags.low \div 64) % 2 = 1
    /\ board.flags.low % 64 = ret.src + 8
    /\ RefToMove(board) = BLACK

\* C19: in every position reached by making and unmaking legal moves, each
\* castling right that is set has the king of its colour on e1 / e8 and a
\* rook of its colour on the corner of its side.
C19_CastlingRights ==
    \A b \in Boards : \A c \in {WHITE, BLACK} : \A side \in {KING, QUEEN} :
        (b.flags.low \div (IF c = WHITE THEN (IF side = KING THEN 256 ELSE 512)
                           ELSE (IF side = KING THEN 1024 ELSE 2048))) % 2 = 1 =>
            LET y == IF c = WHITE THEN 0 ELSE 7
            IN  /\ 4 + 8 * y \in b.pieces[KING] \cap b.players[c]
                /\ (IF side = KING THEN 7 ELSE 0) + 8 * y \in b.pieces[ROOK] \cap b.players[c]

\* a rook is taken on its corner while its side still held the right
C19_Witness ==
    /\ last_op = "make_next_move"
    /\ ret # MOVE_END
    /\ ret.is_capture = 1
    /\ ret.capture_square = 56
    /\ (init_board.flags.low \div 2048) % 2 = 1
    /\ (board.flags.low \div 2048) % 2 = 0
    /\ 56 \notin board.players[BLACK]

\* the leaf counts the walk is to find at depths 1 to 5
PerftTable == <<20, 400, 8902, 197281, 4865609>>

C21_ScholarsMate ==
    ply = Len(ScholarsMate) =>
        /\ board_player_to_move(board) = BLACK
        /\ board_player_in_check(board, BLACK) # {}
        /\ emitted = <<>>
        /\ pc = "gen" /\ last_op \in {"next_move", "make_next_move"} =>
               /\ ret = MOVE_END
               /\ move_gen_is_checkmate_call(gen) = Returned(1)
               /\ move_gen_is_stalemate_call(gen) = Returned(0)
        /\ last_op = "play_str" =>
               /\ pc = "idle"
               /\ board_is_checkmate(board).answer
               /\ ~board_is_stalemate(board).answer

\* the generator has been run on the position the game ends in
C21_Witness ==
    /\ ply = Len(ScholarsMate)
    /\ pc = "gen"
    /\ last_op = "next_move"
    /\ ret = MOVE_END
    /\ gen.done = MOVE_DONE_CHECKMATE
    /\ board_to_fen_str(board) = board_to_fen_str(init_board)

\* C22: on 7k/5Q2/6K1/8/8/8/8/8 b - - 0 1 Black is to move and not in check,
\* the generator returns no move, and the position is reported as stalemate
\* and not as checkmate.
C22_Stalemate ==
    init_board = board_from_fen_str(FenStalemate) =>
        /\ board = init_board
        /\ board_player_to_move(board) = BLACK
        /\ board_player_in_check(board, BLACK) = {}
        /\ emitted = <<>>
        /\ pc = "gen" /\ last_op \in {"next_move", "make_next_move"} =>
               /\ ret = MOVE_END
               /\ move_gen_is_stalemate_call(gen) = Returned(1)
               /\ move_gen_is_checkmate_call(gen) = Returned(0)
        /\ pc = "idle" =>
               /\ board_is_stalemate(board).answer
               /\ ~board_is_checkmate(board).answer

\* the generator has been run to its end on the stalemate position
C22_Witness ==
    /\ init_board = board_from_fen_str(FenStalemate)
    /\ pc = "gen"
    /\ last_op = "next_move"
    /\ ret = MOVE_END
    /\ gen.done = MOVE_DONE_STALEMATE

\* board_make_move has just returned: the move it was given, made on the
\* position `before`, gave `board`
JustMade ==
    \/ last_op \in {"make", "play_str", "keep"} /\ pc = "idle"
    \/ last_op = "make_next_move" /\ pc = "applied"
    \/ last_op = "board_make_move" /\ pc = "returned"

MadeMove == IF last_op = "board_make_move" THEN call.arg ELSE ret

\* the move is a pawn's advance of two ranks from its home rank
IsDoublePush(b, move) ==
    /\ move.src \in b.pieces[PAWN]
    /\ move.dst - move.src \in {16, -16}
    /\ move.src \div 8 = (IF RefToMove(b) = WHITE THEN 1 ELSE 6)

\* C23: after board_make_move an en passant target is present exactly when
\* the move was a pawn moving two ranks from its home rank, and it is the
\* square the pawn skipped; after any other move
\* board_get_en_passant_target returns BOARD_POS_INVALID, whatever the
\* target was before.
C23_TargetAfterMake ==
    JustMade =>
        /\ board_get_en_passant_target(board) =
               (IF IsDoublePush(before, MadeMove)
                THEN (MadeMove.src + MadeMove.dst) \div 2
                ELSE BOARD_POS_INVALID)
        /\ (MadeMove.src \in before.pieces[PAWN]
            /\ MadeMove.dst - MadeMove.src \in {16, -16}) => IsDoublePush(before, MadeMove)

\* a move that is no double push has been made on a position that had a
\* target, and the target is gone
C23_Witness ==
    /\ JustMade
    /\ RefEpTarget(before) # -1
    /\ ~IsDoublePush(before, MadeMove)
    /\ board_get_en_passant_target(board) = BOARD_POS_INVALID

\* by how much a move of the player to move on b changes the turn number
TurnStep(b) == IF RefToMove(b) = BLACK THEN 1 ELSE 0

\* C24 as stated: board_make_move adds exactly one to the full-turn counter
\* (bits 16..31) when the mover is Black, leaves it when the mover is White,
\* and always flips the side to move; board_unmake_move takes exactly one
\* off when the undone move was Black's.
C24_TurnCounterExact ==
    /\ [](JustMade =>
             /\ board.flags.turn = before.flags.turn + TurnStep(before)
             /\ RefToMove(board) = 1 - RefToMove(before))
    /\ [][UnmakeMove => board'.flags.turn = board.flags.turn - TurnStep(board')]_vars

\* C24: board_make_move adds one, modulo 2^16, to the full-turn counter when
\* the mover is Black (65535 is followed by 0), leaves it when the mover is
\* White, and always flips the side to move; board_unmake_move takes one
\* off, modulo 2^16, when the undone move was Black's (0 is followed by
\* 65535).
C24_TurnCounter ==
    /\ [](JustMade =>
             /\ board.flags.turn = (before.flags.turn + TurnStep(before)) % TurnModulus
             /\ RefToMove(board) = 1 - RefToMove(before))
    /\ [][UnmakeMove =>
             board'.flags.turn = (board.flags.turn - TurnStep(board')) % TurnModulus]_vars

\* Black has moved on turn 65535 and the move has been taken back
C24_Witness ==
    /\ last_op = "unmake"
    /\ RefToMove(board) = BLACK
    /\ board.flags.turn = 65535
    /\ board_make_move(board, ret).flags.turn = 0

\* the castling rights as pairs of colour and side, the bit of each in the
\* flags word and the corner its rook starts on
Rights == {WHITE, BLACK} \X {KING, QUEEN}

RightBit(right) ==
    IF right[1] = WHITE THEN (IF right[2] = KING THEN 256 ELSE 512)
    ELSE (IF right[2] = KING THEN 1024 ELSE 2048)

RightHeld(b, right) == (b.flags.low \div RightBit(right)) % 2 = 1

RightCorner(right) ==
    (IF right[2] = KING THEN 7 ELSE 0) + (IF right[1] = WHITE THEN 0 ELSE 56)

\* the rights the move is to cost: both of the mover for a castle or a king
\* move, the mover's own for a rook leaving its corner, the opponent's for a
\* rook taken on its corner
RightsLost(b, move) ==
    LET mover == RefToMove(b)
    IN  {right \in Rights :
            \/ /\ right[1] = mover
               /\ \/ move.is_castle = 1
                  \/ move.src \in b.pieces[KING]
                  \/ move.src \in b.pieces[ROOK] /\ move.src = RightCorner(right)
            \/ /\ right[1] = 1 - mover
               /\ move.is_capture = 1
               /\ move.capture_square \in b.pieces[ROOK]
               /\ move.capture_square = RightCorner(right)}

\* C25: board_make_move clears exactly these castling rights: both rights of
\* the mover on a castle or a king move; the mover's right of the side on a
\* rook moving from a1, h1, a8 or h8; the right of the side of the captured
\* rook's owner on a capture of a rook on a1, h1, a8 or h8, a capture by a
\* promotion included.  No other castling bit changes.
C25_RightsCleared ==
    JustMade =>
        \A right \in Rights :
            RightHeld(board, right) <=>
                RightHeld(before, right) /\ right \notin RightsLost(before, MadeMove)

\* a pawn has promoted by taking the rook on a8 while Black held the right
\* of that side
C25_Witness ==
    /\ JustMade
    /\ MadeMove.is_promote = 1
    /\ MadeMove.is_capture = 1
    /\ MadeMove.dst = 56
    /\ 56 \in before.pieces[ROOK]
    /\ RightHeld(before, <<BLACK, QUEEN>>)
    /\ ~RightHeld(board, <<BLACK, QUEEN>>)

\* a rook has left its corner and cost its side's right, the other right
\* of the mover is kept
C25_RookLeavesCorner ==
    /\ JustMade
    /\ MadeMove.src = 0
    /\ 0 \in before.pieces[ROOK]
    /\ RightHeld(before, <<WHITE, QUEEN>>) /\ ~RightHeld(board, <<WHITE, QUEEN>>)
    /\ RightHeld(board, <<WHITE, KING>>)

\* the move takes en passant on b: a pawn goes to the target of b
EpMove(b, move) ==
    /\ RefEpTarget(b) # -1
    /\ move.src \in b.pieces[PAWN]
    /\ move.dst = RefEpTarget(b)

\* the square of the pawn that made the double push: one rank behind the
\* target as the player to move sees it
EpPawn(b) == RefEpTarget(b) + (IF RefToMove(b) = WHITE THEN -8 ELSE 8)

\* the pawns of the player to move that stand diagonally before the target
EpSources(b) ==
    {src \in b.pieces[PAWN] \cap b.players[RefToMove(b)] :
        RefAttacks(RefOccupied(b), PAWN, RefToMove(b), src, RefEpTarget(b))}

\* with both pawns off their squares and the capturing pawn on the target
\* the mover's king is not attacked
EpLegal(b, src) ==
    ~RefInCheck(RefPlace(b, src, RefEpTarget(b), EpPawn(b), PAWN), RefToMove(b))

EmittedEpSources == {emitted[i].src : i \in {j \in 1..Len(emitted) : EpMove(init_board, emitted[j])}}

\* C26: an en passant capture is emitted with the target as destination,
\* the square one rank behind it as capture square and PAWN as captured
\* kind; board_make_move empties the source and the capture square and puts
\* the pawn on the target; board_unmake_move puts the captured pawn and the
\* target back; the capture is not emitted when taking both pawns off their
\* squares leaves the mover's king attacked.
C26_EnPassant ==
    /\ \A i \in 1..Len(emitted) :
           EpMove(init_board, emitted[i]) =>
               /\ emitted[i].is_capture = 1
               /\ emitted[i].capture_square = EpPawn(init_board)
               /\ emitted[i].capture_piece = PAWN
               /\ emitted[i].is_promote = 0
               /\ emitted[i].is_castle = 0
    /\ (Exhausted /\ RefEpTarget(init_board) # -1) =>
           EmittedEpSources = {src \in EpSources(init_board) : EpLegal(init_board, src)}
    /\ (JustMade /\ EpMove(before, MadeMove)) =>
           /\ MadeMove.src \notin RefOccupied(board)
           /\ EpPawn(before) \notin RefOccupied(board)
           /\ RefEpTarget(before) \in board.pieces[PAWN] \cap board.players[RefToMove(before)]
    /\ (last_op = "unmake" /\ EpMove(before, ret)) =>
           /\ EpPawn(before) \in board.pieces[PAWN] \cap board.players[1 - RefToMove(before)]
           /\ ret.src \in board.pieces[PAWN] \cap board.players[RefToMove(before)]
           /\ RefEpTarget(before) \notin RefOccupied(board)
           /\ RefEpTarget(board) = RefEpTarget(before)

\* an en passant capture has been emitted, made and taken back
C26_Witness ==
    /\ last_op = "unmake"
    /\ EpMove(before, ret)
    /\ ret.capture_square = EpPawn(before)
    /\ board = before

\* the only pawn that could take en passant is pinned, and the generator
\* has ended without emitting the capture
C26_PinnedNotEmitted ==
    /\ Exhausted
    /\ EpSources(init_board) # {}
    /\ EmittedEpSources = {}

\* the position without what stands on the square
WithoutPiece(b, sq) ==
    [b EXCEPT !.players = [p \in 0..1 |-> b.players[p] \ {sq}],
              !.pieces = [k \in 0..5 |-> b.pieces[k] \ {sq}]]

\* the position without its en passant target
WithoutTarget(b) ==
    [b EXCEPT !.flags.low = IF (@ \div 64) % 2 = 1 THEN @ - 64 ELSE @]

\* C27: board_is_square_attacked(P, s, c) is exactly the set of squares
\* holding a piece of colour c that attacks s in P: a king on an adjacent
\* square, a knight an L-step away, a pawn on a diagonal from which it
\* advances onto s, a rook or queen on the rank or file and a bishop or queen
\* on a diagonal with nothing between.  The result does not depend on what
\* stands on s nor on the en passant target, and holds no square of the
\* other colour.  Checked on every position a caller holds between calls.
C27_Attackers ==
    pc = "idle" =>
        \A sq \in Squares : \A c \in {WHITE, BLACK} :
            /\ board_is_square_attacked(board, sq, c) = RefAttackers(board, sq, c)
            /\ board_is_square_attacked(board, sq, c) \subseteq board.players[c]
            /\ board_is_square_attacked(WithoutPiece(board, sq), sq, c)
                   = board_is_square_attacked(board, sq, c)
            /\ board_is_square_attacked(WithoutTarget(board), sq, c)
                   = board_is_square_attacked(board, sq, c)

\* a position with an en passant target in which the rook on h5 attacks the
\* pawn on e5 along the rank and the pawn on d5 attacks e4
C27_Witness ==
    /\ pc = "idle"
    /\ RefEpTarget(board) # -1
    /\ 36 \in board.players[WHITE]
    /\ board_is_square_attacked(board, 36, BLACK) = {39}
    /\ board_is_square_attacked(board, 28, BLACK) = {35}

\* the squares move_gen_reg_moves_mask gives the piece on `from`, a piece
\* of colour c, on position b: its moves before the squares of its own
\* colour are masked out
PseudoLegalMask(b, c, from) ==
    move_gen_reg_moves_mask(board_occupancy_for_sliders_lookups(b),
                            board_occupancy_for_pawns_lookups(b),
                            board_piece_on_square(b, from), c, from)

\* the same with a pawn given its two forward diagonals, occupied or not,
\* and no push: the table entry for three occupied squares ahead
AttackMask(b, c, from) ==
    IF from \in b.pieces[PAWN] THEN move_gen_pawns[c][1][7][from]
    ELSE PseudoLegalMask(b, c, from)

\* C28 as stated: board_is_square_attacked(P, s, c) is non-zero exactly when
\* some piece of colour c has s in the set move_gen_reg_moves_mask gives it,
\* squares of its own colour included.
C28_PseudoLegalSymmetry ==
    pc = "idle" =>
        \A sq \in Squares : \A c \in {WHITE, BLACK} :
            board_is_square_attacked(board, sq, c) # {}
                <=> \E from \in board.players[c] : sq \in PseudoLegalMask(board, c, from)

\* C28: board_is_square_attacked(P, s, c) is non-zero exactly when some
\* piece of colour c that is no pawn has s in the set
\* move_gen_reg_moves_mask gives it, squares of its own colour included, or
\* a pawn of colour c has s as one of its two forward diagonal squares,
\* whether s is occupied or not.  A pawn's push is no attack.
C28_AttackSymmetry ==
    pc = "idle" =>
        \A sq \in Squares : \A c \in {WHITE, BLACK} :
            board_is_square_attacked(board, sq, c) # {}
                <=> \E from \in board.players[c] : sq \in AttackMask(board, c, from)

\* on the start position the pawn on e2 may move to e4, which White does
\* not attack, and attacks d3, to which it may not move
C28_Witness ==
    /\ pc = "idle"
    /\ 12 \in board.pieces[PAWN] \cap board.players[WHITE]
    /\ 28 \in PseudoLegalMask(board, WHITE, 12)
    /\ board_is_square_attacked(board, 28, WHITE) = {}
    /\ 19 \notin PseudoLegalMask(board, WHITE, 12)
    /\ 12 \in board_is_square_attacked(board, 19, WHITE)

\* the squares a pawn of colour c on sq may move to by the rules, a square
\* counting as occupied when a piece stands on it or it is the en passant
\* target of b
RefPawnMoves(b, sq, c) ==
    LET occupied(s) == s \in RefOccupied(b) \/ s = RefEpTarget(b)
        x == sq % 8
        one == IF c = WHITE THEN sq + 8 ELSE sq - 8
        two == IF c = WHITE THEN sq + 16 ELSE sq - 16
        home == IF c = WHITE THEN 1 ELSE 6
    IN  (IF ~occupied(one) THEN {one} ELSE {})
        \cup (IF sq \div 8 = home /\ ~occupied(one) /\ ~occupied(two) THEN {two} ELSE {})
        \cup (IF x > 0 /\ occupied(one - 1) THEN {one - 1} ELSE {})
        \cup (IF x < 7 /\ occupied(one + 1) THEN {one + 1} ELSE {})

\* C29: for either colour, every square of ranks 2 to 7 and every occupancy,
\* pawn_move_lookup returns exactly the square one step ahead if it is
\* empty, the square two steps ahead if the pawn is on its home rank and
\* both squares are empty, and each forward diagonal square that exists and
\* is occupied, the en passant target counting as occupied; a pawn on the a
\* or h file gets no destination on the opposite edge file.
C29_PawnLookup ==
    last_op = "pawn_move_lookup" =>
        LET square == call.arg[2]
            player == call.arg[3]
        IN  /\ call.out = Returned(RefPawnMoves(board, square, player))
            /\ \A dst \in call.out.value : Abs((dst % 8) - (square % 8)) <= 1

\* a white pawn on a2 with a piece on h2, the square before b3 in the
\* occupancy word, and the en passant target on b3: both pushes and b3
C29_Witness ==
    /\ last_op = "pawn_move_lookup"
    /\ call.arg[2] = 8
    /\ call.arg[3] = WHITE
    /\ 15 \in call.arg[1]
    /\ RefEpTarget(board) = 17
    /\ call.out = Returned({16, 17, 24})

PromotionKinds == {KNIGHT, ROOK, BISHOP, QUEEN}

\* the move takes a pawn of the position the generator runs on to rank 1 or 8
LastRankPawnMove(move) ==
    /\ move.src \in init_board.pieces[PAWN]
    /\ move.dst \div 8 \in {0, 7}

\* made on that position, the move leaves the mover's king unattacked
LeavesKingSafe(move) ==
    ~RefInCheck(RefPlace(init_board, move.src, move.dst,
                         IF move.dst \in init_board.players[1 - RefToMove(init_board)]
                         THEN move.dst ELSE -1,
                         move.promote_piece),
                RefToMove(init_board))

LegalLastRankPawnMove(move) == LastRankPawnMove(move) /\ LeavesKingSafe(move)

\* the generator is about to build a move for a destination it has built
\* none for yet: not the destination of the move it built last
OnNewDestination ==
    /\ gen.cur_mode = MOVE_GEN_MODE_NORMAL
    /\ gen.cur_moves # {}
    /\ \/ call.arg = <<>>
       \/ call.arg[Len(call.arg)].src # gen.cur_square
       \/ call.arg[Len(call.arg)].dst # bitboard_scan_lsb(gen.cur_moves)

\* C30: for every pawn destination on rank 1 or 8 that the rules of
\* movement allow, the generator builds exactly four moves, one for each of
\* KNIGHT, ROOK, BISHOP and QUEEN, each with the promotion flag, and returns
\* those that leave the king safe; it builds no pawn move to the last rank
\* without the flag, no promotion to KING or PAWN and no other move with the
\* flag; whenever it starts on a new destination cur_promotion is KNIGHT.
C30_Promotions ==
    pc = "pass" =>
        /\ \A i \in 1..Len(call.arg) :
               /\ call.arg[i].is_promote = 1 <=> LastRankPawnMove(call.arg[i])
               /\ call.arg[i].is_promote = 1 => call.arg[i].promote_piece \in PromotionKinds
        /\ \A i \in 1..Len(emitted) :
               /\ emitted[i].is_promote = 1 <=> LastRankPawnMove(emitted[i])
               /\ emitted[i].is_promote = 1 => emitted[i].promote_piece \in PromotionKinds
        /\ OnNewDestination => gen.cur_promotion = KNIGHT
        /\ gen.done # 0 =>
               /\ \A src \in init_board.pieces[PAWN] \cap init_board.players[RefToMove(init_board)] :
                      \A dst \in {sq \in Squares : sq \div 8 \in {0, 7}} :
                          LET built == {i \in 1..Len(call.arg) :
                                           call.arg[i].src = src /\ call.arg[i].dst = dst}
                          IN  IF dst \in RefDestinations(init_board, src)
                              THEN /\ Cardinality(built) = 4
                                   /\ {call.arg[i].promote_piece : i \in built} = PromotionKinds
                              ELSE built = {}
               /\ SelectSeq(emitted, LastRankPawnMove)
                      = SelectSeq(call.arg, LegalLastRankPawnMove)

\* the generator has ended on the position with promotions by capture and
\* without: twelve moves built for the three destinations, all returned
C30_Witness ==
    /\ pc = "pass"
    /\ gen.done # 0
    /\ Len(SelectSeq(call.arg, LastRankPawnMove)) = 12
    /\ Len(SelectSeq(emitted, LastRankPawnMove)) = 12

\* the generator has ended on the position with the pinned pawn: four
\* promotions built, none returned
C30_PinnedPromotion ==
    /\ pc = "pass"
    /\ gen.done # 0
    /\ Len(SelectSeq(call.arg, LastRankPawnMove)) = 4
    /\ SelectSeq(emitted, LastRankPawnMove) = <<>>

\* ------------------------------------------------------------------------
\* the step of each shift on the diagram of chess-util.h (file a is bit 0 of
\* a rank, rank 1 is the low byte), as the code takes it: the change of the
\* file index and of the rank index
ShiftNames ==
    {"bitboard_shift_n", "bitboard_shift_s", "bitboard_shift_w", "bitboard_shift_e",
     "bitboard_shift_nw", "bitboard_shift_ne", "bitboard_shift_sw", "bitboard_shift_se"}

SidewaysShifts == ShiftNames \ {"bitboard_shift_n", "bitboard_shift_s"}

\* the squares of `bb` moved by dx files and dy ranks, those that leave the
\* board dropped
Stepped(bb, dx, dy) ==
    {board_pos_from_xy(board_pos_to_x(s) + dx, board_pos_to_y(s) + dy) : s \in bb} \cap Squares

JustShifted == pc = "returned" /\ last_op \in ShiftNames

\* C31: the result of bitboard_shift_e, _w, _ne, _nw, _se and _sw is the
\* argument's squares each moved one file sideways, the same way for all of
\* them, and up, down or not at all as the name says; a square whose step
\* leaves the board gives nothing, so that no square of the result lies on
\* the far edge file of a square it did not come from: every square of the
\* result has its source, on a file next to its own, in the argument, and
\* the result has no more squares than the argument.
C31_NoWrap ==
    (JustShifted /\ last_op \in SidewaysShifts) =>
        LET bb == call.arg[1]
            out == call.out.value
        IN  /\ \E dx \in {-1, 1}, dy \in {-1, 0, 1} :
                   /\ out = Stepped(bb, dx, dy)
                   /\ \A t \in out :
                          \E s \in bb : /\ board_pos_to_x(t) = board_pos_to_x(s) + dx
                                        /\ board_pos_to_y(t) = board_pos_to_y(s) + dy
            /\ bitboard_popcount(out) <= bitboard_popcount(bb)

\* h1 and a2, neighbours in the word, shifted by bitboard_shift_w: h1 is
\* dropped and does not turn up on a2
C31_Witness ==
    /\ JustShifted
    /\ last_op = "bitboard_shift_w"
    /\ call.arg[1] = {7, 8}
    /\ call.out.value = {9}

\* C32: bitboard_shift_e moves every square one file toward the h file
\* (file index + 1, same rank), bitboard_shift_w one file toward the a file
\* (file index - 1, same rank), bitboard_shift_n one rank up and
\* bitboard_shift_s one rank down, squares that leave the board dropped.
C32_ShiftDirections ==
    JustShifted =>
        LET bb == call.arg[1]
            out == call.out.value
        IN  /\ last_op = "bitboard_shift_e" => out = Stepped(bb, 1, 0)
            /\ last_op = "bitboard_shift_w" => out = Stepped(bb, -1, 0)
            /\ last_op = "bitboard_shift_n" => out = Stepped(bb, 0, 1)
            /\ last_op = "bitboard_shift_s" => out = Stepped(bb, 0, -1)

\* what the code does: the two vertical shifts are as named, while
\* bitboard_shift_e lowers the file index and bitboard_shift_w raises it
C32_ShiftsAsCoded ==
    JustShifted =>
        LET bb == call.arg[1]
            out == call.out.value
        IN  /\ last_op = "bitboard_shift_e" => out = Stepped(bb, -1, 0)
            /\ last_op = "bitboard_shift_w" => out = Stepped(bb, 1, 0)
            /\ last_op = "bitboard_shift_n" => out = Stepped(bb, 0, 1)
            /\ last_op = "bitboard_shift_s" => out = Stepped(bb, 0, -1)

\* C33: board_to_fen_str writes the full-turn counter in full, whatever its
\* value in 0..65535, so that board_from_fen_str on the string written
\* recovers the counter.
C33_TurnCounterWritten ==
    last_op = "fen" => board_get_full_turn_number(board) = board_get_full_turn_number(before)

\* what the code does: a counter of at most three digits is recovered, and
\* a longer one comes back as its three leading digits
C33_LeadingDigitsWritten ==
    last_op = "fen" =>
        LET n == board_get_full_turn_number(before)
            leading == IF n >= 10000 THEN n \div 100 ELSE IF n >= 1000 THEN n \div 10 ELSE n
        IN  board_get_full_turn_number(board) = leading

\* the en passant square field of the flags word (bits 0..5)
EpSquareField(b) == b.flags.low % (BOARD_FLAGS_EP_SQUARE + 1)

\* the two positions agree on placement, side to move, castling rights, en
\* passant target and turn counter
SamePosition(a, b) ==
    /\ a.players = b.players
    /\ a.pieces = b.pieces
    /\ board_player_to_move(a) = board_player_to_move(b)
    /\ \A right \in Rights : RightHeld(a, right) <=> RightHeld(b, right)
    /\ board_get_en_passant_target(a) = board_get_en_passant_target(b)
    /\ board_get_full_turn_number(a) = board_get_full_turn_number(b)

\* C34: in every position that board_from_fen_str, board_make_move or
\* board_unmake_move produced, the en passant square field is zero when the
\* en-passant-present bit is clear, and so two positions that agree on
\* placement, side to move, castling rights, en passant target and turn
\* counter have equal flags words.
C34_EpFieldNormal ==
    /\ ~FlagSet(board.flags.low, BOARD_FLAGS_EP_PRESENT) => EpSquareField(board) = 0
    /\ SamePosition(board, before) => board.flags = before.flags

\* what the code does: a position read from a FEN string has the field zero
\* when it has no target
C34_EpFieldAfterLoad ==
    (last_op \in {"load", "fen"} /\ ~FlagSet(board.flags.low, BOARD_FLAGS_EP_PRESENT)) =>
        EpSquareField(board) = 0

\* the largest value of the full-turn counter
LastTurn == TurnModulus - 1

\* the low half of the flags word after the move is the low half before it
\* with the side to move flipped, the rights the move costs cleared, the
\* en passant target as the move sets it, and bits 12..15 as they were
LowHalfAsMade(b, move, after) ==
    /\ RefToMove(after) = 1 - RefToMove(b)
    /\ \A right \in Rights :
           RightHeld(after, right) <=> RightHeld(b, right) /\ right \notin RightsLost(b, move)
    /\ board_get_en_passant_target(after) =
           (IF IsDoublePush(b, move) THEN (move.src + move.dst) \div 2 ELSE BOARD_POS_INVALID)
    /\ after.flags.low \div 4096 = b.flags.low \div 4096

\* C35: a move of Black made when the full-turn counter is 65535 leaves the
\* counter at 0 and the low half of the flags word as any other move would
\* leave it; undoing a move of Black puts the move's previous flags in the
\* low half, whole, and takes one off the counter modulo 2^16, so that the
\* flags word is again the one the move was made on, 65535 included.
C35_BoundaryRoundTrip ==
    /\ []((JustMade /\ RefToMove(before) = BLACK /\ before.flags.turn = LastTurn) =>
             /\ board.flags.turn = 0
             /\ LowHalfAsMade(before, MadeMove, board))
    /\ [][(UnmakeMove /\ RefToMove(board) = WHITE) =>
             /\ board'.flags.low = ret.prev_flags
             /\ board'.flags.turn = (board.flags.turn + LastTurn) % TurnModulus
             /\ board'.flags = before.flags]_vars

\* Black's move on turn 65535 has been made, which left the counter at 0,
\* and has been undone, which left it at 65535
C35_Witness ==
    /\ last_op = "unmake"
    /\ board = before
    /\ board.flags.turn = LastTurn
    /\ ret.prev_flags = board.flags.low
    /\ FlagSet(ret.prev_flags, BOARD_FLAGS_TURN)
    /\ board_make_move(board, ret).flags = [low |-> 0, turn |-> 0]

\* C36: the move the generator returned on a position, written by
\* move_to_str and parsed by move_from_str against the same position, is a
\* move that moves_equal finds equal to the one returned, and move_is_legal
\* of the parsed move on the position answers 1 and leaves the position as
\* it was, whatever the kind of the move: quiet, capture, en passant,
\* promotion to any of the four kinds, castle.
C36_StrRoundTrip ==
    /\ last_op = "parse_emitted" =>
           /\ call.out.kind = "return"
           /\ call.out.value # MOVE_END
           /\ moves_equal(call.out.value, ret) = 1
    /\ last_op = "move_is_legal" =>
           /\ moves_equal(call.arg, ret) = 1
           /\ call.out = Returned(1)
           /\ board = before

\* a move that takes nothing and promotes nothing came back from its string
\* with other bits in the fields that do not count, and was found legal
C36_Witness ==
    /\ last_op = "move_is_legal"
    /\ ret.is_capture = 0
    /\ ret.is_promote = 0
    /\ call.arg # ret
    /\ call.out = Returned(1)

\* the kinds of move for which the round trip has been made
ParsedKind ==
    IF ret.is_castle = 1 THEN "castle"
    ELSE IF ret.is_promote = 1 THEN "promotion"
    ELSE IF ret.is_capture = 1 /\ ret.capture_square # ret.dst THEN "en passant"
    ELSE IF ret.is_capture = 1 THEN "capture"
    ELSE "quiet"

\* the cursor of the first generator is not after the cursor of the second
CursorLeq(g, h) ==
    \/ g.cur_piece_type < h.cur_piece_type
    \/ g.cur_piece_type = h.cur_piece_type /\ g.cur_square <= h.cur_square

\* C37: over the passes of a generator, cur_mode goes from NORMAL to
\* CASTLE_KING to CASTLE_QUEEN to END, one step at a time and never back;
\* from one pass in NORMAL to the next in NORMAL the pair (cur_piece_type,
\* cur_square) does not decrease in kind-major order; at the start of every
\* pass in NORMAL, where cur_piece_type indexes the pieces of the board, it
\* is one of the six kinds; and a pass that attempts a castle leaves the
\* mode of that attempt behind, so that each castle is attempted at most
\* once.
C37_CursorForward ==
    /\ [](/\ gen.cur_mode \in MOVE_GEN_MODE_NORMAL..MOVE_GEN_MODE_END
          /\ gen.cur_mode = MOVE_GEN_MODE_NORMAL =>
                 gen.cur_piece_type \in KING..QUEEN /\ gen.cur_square \in Squares)
    /\ [][/\ gen'.cur_mode \in {gen.cur_mode, gen.cur_mode + 1}
          /\ (gen.cur_mode = MOVE_GEN_MODE_NORMAL /\ gen'.cur_mode = MOVE_GEN_MODE_NORMAL) =>
                 CursorLeq(gen, gen')
          /\ gen.cur_mode \in {MOVE_GEN_MODE_CASTLE_KING, MOVE_GEN_MODE_CASTLE_QUEEN} =>
                 gen'.cur_mode = gen.cur_mode + 1]_vars

\* the generator on the position with every castling right has been through
\* its pawns, has made both castle attempts, each of which gave a move, and
\* has come to MOVE_GEN_MODE_END
C37_Witness ==
    /\ pc = "pass"
    /\ gen.cur_mode = MOVE_GEN_MODE_END
    /\ gen.cur_piece_type = QUEEN + 1
    /\ Len(emitted) >= 2
    /\ emitted[Len(emitted)].is_castle = 1
    /\ emitted[Len(emitted) - 1].is_castle = 1

\* a generator is live on the board
GenLive == pc \in {"gen", "applied"}

\* C38: a generator has returned MOVE_END at least once exactly when its
\* done is not zero, and has returned a move at least once exactly when its
\* hit_move is 1; every call of move_gen_next_move or move_gen_make_next_move
\* on a generator that has returned MOVE_END returns MOVE_END again, leaves
\* the board as it was and leaves done at the value it had.
C38_EndIsFinal ==
    /\ [](GenLive => /\ gen.done # 0 <=> ends > 0
                     /\ gen.hit_move = 1 <=> Len(emitted) > 0)
    /\ [][(ends > 0 /\ last_op' \in {"next_move", "make_next_move"}) =>
             /\ ret' = MOVE_END
             /\ board' = board
             /\ gen'.done = gen.done]_vars

\* a generator that returned moves and then MOVE_END was called once more,
\* with move_gen_make_next_move, and returned MOVE_END again
C38_Witness ==
    /\ GenLive
    /\ last_op = "make_next_move"
    /\ ends = 2
    /\ ret = MOVE_END
    /\ Len(emitted) > 0
    /\ gen.done = MOVE_DONE_NORMAL
    /\ board = init_board

\* the generator h is further on than the generator g: in a later mode; or,
\* both in NORMAL, on a later (kind, square) pair; or on the same pair with
\* fewer destinations left; or with the same destinations left and a later
\* promotion kind; or, both at the end, with done set
FurtherOn(g, h) ==
    \/ h.cur_mode > g.cur_mode
    \/ /\ h.cur_mode = g.cur_mode
       /\ g.cur_mode = MOVE_GEN_MODE_NORMAL
       /\ \/ ~CursorLeq(h, g)
          \/ /\ h.cur_piece_type = g.cur_piece_type
             /\ h.cur_square = g.cur_square
             /\ \/ h.cur_moves \subseteq g.cur_moves /\ h.cur_moves # g.cur_moves
                \/ h.cur_moves = g.cur_moves /\ h.cur_promotion > g.cur_promotion
    \/ /\ h.cur_mode = g.cur_mode
       /\ g.cur_mode = MOVE_GEN_MODE_END
       /\ g.done = 0
       /\ h.done # 0

\* C39: a generator started by move_gen_init on a position comes to return
\* MOVE_END; every pass of move_gen_next, the ones that end in a retry
\* after a rejected candidate or after stepping to the next square
\* included, leaves the generator further on than it found it, so that each
\* call finishes; and no move is returned twice.
C39_Terminates ==
    /\ <>(gen.done # 0)
    /\ [][FurtherOn(gen, gen')]_vars
    /\ [](\A i, j \in 1..Len(emitted) : i # j => emitted[i] # emitted[j])

\* a generator has come to MOVE_END after moves were returned and after
\* candidates were rejected and the pass retried
C39_Witness ==
    /\ pc = "pass"
    /\ gen.done # 0
    /\ Len(emitted) > 0
    /\ Len(call.arg) > Len(emitted)

\* a right is held on the board h that is not held on the board g
RightGained(g, h) == \E right \in Rights : RightHeld(h, right) /\ ~RightHeld(g, right)

\* C40: a castling right that is not held before board_make_move is not
\* held after it, whatever the move and however many moves are made in a
\* row; a step that leaves a right held that was not held before it is a
\* board_unmake_move; and after board_unmake_move the rights held are the
\* ones set in the previous flags stored in the move.
C40_RightsNeverGrow ==
    /\ [](JustMade => ~RightGained(before, board))
    /\ [][RightGained(board, board') => last_op' = "unmake"]_vars
    /\ [][last_op' = "unmake" =>
              \A right \in Rights :
                  RightHeld(board', right) <=> FlagSet(ret.prev_flags, RightBit(right))]_vars

\* board_unmake_move has taken back a move that cost a right: the right is
\* held again, and a right that was not held before the move was made is
\* held neither with the move made nor with it taken back
C40_Witness ==
    /\ last_op = "unmake"
    /\ pc = "gen"
    /\ RightGained(board_make_move(board, ret), board)
    /\ \E right \in Rights :
           /\ right[1] = RefToMove(board)
           /\ ~RightHeld(board, right)
           /\ ~RightHeld(board_make_move(board, ret), right)

====
